---- MODULE Spec2Model ----
(***************************************************************************)
(* Import pipeline of smart-finance-tracker: ImportService.ImportWithOptions *)
(* (internal/domain/import/service/service.go) running against the          *)
(* PostgresImportRepository (internal/domain/import/repository).            *)
(*                                                                         *)
(* One invocation p of ImportWithOptions is the orchestrator (the consumer  *)
(* of the results channel), one dispatcher goroutine, workerCount worker    *)
(* goroutines and one joiner goroutine.  The database is shared by all      *)
(* invocations; every repository call is one SQL statement and one step.    *)
(***************************************************************************)
EXTENDS Integers, Sequences, FiniteSets, Bags, TLC

\* ------------------------------------------------------------------------
\* Program constants
\* ------------------------------------------------------------------------
importBatchSize == 500
importProgressUpdateEvery == 500
batchSize == 100
HeaderSearchLimit == 20
ChannelFactor == 4

\* ------------------------------------------------------------------------
\* Bounds of the model
\* ------------------------------------------------------------------------
MaxImports == 2
MaxWorkers == 2
MaxRows == 3
MaxRowsTwo == 2
MaxRowsOne == 1
MaxDeletes == 1
MaxMappings == 4
MaxRunes == 2
MaxHeaders == 2
MaxSmallCents == 999
MaxListed == 120
BigRows == 505

Procs == 1 .. MaxImports
Users == {"u1", "u2"}
NullJob == 0

\* ------------------------------------------------------------------------
\* Files.  A file is a sequence of lines, a line is the sequence of its
\* fields (the empty sequence is a blank line).  The column mapping of the
\* modelled invocations is the one of the service tests: date, description,
\* amount, category in columns 0..3, single amount column.
\* ------------------------------------------------------------------------
DateCol == 0
DescCol == 1
AmountCol == 2
CategoryCol == 3

HeaderLine == <<"Date", "Description", "Amount", "Category">>
MetaLine == <<"Account", "123">>

RowA == <<"13/02/2024", "Store A", "10.50", "Food">>
RowA2 == <<"13/02/2024", "Store A", "10.50", "Shopping">>
RowB == <<"14/02/2024", "Store C", "12.00", "Food">>
RowBadDate == <<"invalid-date", "Store B", "5.00", "Food">>
RowBadAmount == <<"15/02/2024", "Store D", "not-amount", "Food">>
RowNoDesc == <<"16/02/2024", " ", "-3.25", "Food">>
RowShort == <<"16/02/2024">>

BigRow(i) == <<"13/02/2024", ToString(i), "1.00", "Food">>

\* A file value [lines, rows, tail] stands for the given lines, followed by
\* `rows` generated well-formed rows BigRow(1), ..., BigRow(rows), followed by
\* the lines of the tail.
FileLines(f) == f.lines \o [i \in 1 .. f.rows |-> BigRow(i)] \o f.tail

\* Sequences over S of length 0..n
SeqUpTo(S, n) == UNION {[1 .. k -> S] : k \in 0 .. n}

\* ------------------------------------------------------------------------
\* Sniffer (package sniffer)
\* ------------------------------------------------------------------------
\* fields whose lower-cased text contains one of headerKeywords
KeywordFields == {"Date", "Description", "Amount", "Category"}

hasKeyword(line) == \E i \in 1 .. Len(line) : line[i] \in KeywordFields

\* number of occurrences of the delimiter in a line of Len(line) fields
DelimiterCount(line) == IF Len(line) = 0 THEN 0 ELSE Len(line) - 1

\* findHeaderRow: zero-based index of the header line, or -1 (ErrNoHeadersFound)
IsHeaderRow(lines, i) ==
    /\ i <= HeaderSearchLimit
    /\ hasKeyword(lines[i + 1])
    /\ DelimiterCount(lines[i + 1]) >= 3

findHeaderRow(lines) ==
    IF \E i \in 0 .. Len(lines) - 1 : IsHeaderRow(lines, i)
    THEN CHOOSE i \in 0 .. Len(lines) - 1 :
            /\ IsHeaderRow(lines, i)
            /\ \A j \in 0 .. i - 1 : ~IsHeaderRow(lines, j)
    ELSE -1

\* DetectConfig: the skip-line count and the headers, or an error
DetectConfig(lines) ==
    IF Len(lines) = 0 THEN [err |-> "file is empty", SkipLines |-> 0, Headers |-> <<>>]
    ELSE IF findHeaderRow(lines) < 0
         THEN [err |-> "could not find data headers", SkipLines |-> 0, Headers |-> <<>>]
         ELSE [err |-> "", SkipLines |-> findHeaderRow(lines),
               Headers |-> lines[findHeaderRow(lines) + 1]]

\* DetectConfigWithOptions with no override (HeaderRowIndex = -1, no delimiter)
DetectConfigWithOptions(lines) == DetectConfig(lines)

\* a second header line, of another schema
OtherHeaderLine == <<"Date", "Description", "Amount", "Balance">>

\* A header text as the sequence of its runes, for the header texts of the
\* files (any other text stands for one letter)
HeaderRunes(h) ==
    CASE h = "Date" -> <<"D", "a", "t", "e">>
      [] h = "Description" -> <<"D", "e", "s", "c", "r", "i", "p", "t", "i", "o", "n">>
      [] h = "Amount" -> <<"A", "m", "o", "u", "n", "t">>
      [] h = "Category" -> <<"C", "a", "t", "e", "g", "o", "r", "y">>
      [] h = "Balance" -> <<"B", "a", "l", "a", "n", "c", "e">>
      [] OTHER -> <<h>>

RunesOfHeaders(headers) == [i \in 1 .. Len(headers) |-> HeaderRunes(headers[i])]

\* the runes that are neither letter nor digit
OtherRunes == {" ", ".", ",", ";", "|", "-", "_"}

IsLetterOrDigit(r) == r \notin OtherRunes

\* unicode.ToLower on the letters used
ToLower(r) ==
    CASE r = "A" -> "a"
      [] r = "B" -> "b"
      [] r = "C" -> "c"
      [] r = "D" -> "d"
      [] OTHER -> r

\* strings.Map(lowercase letters and digits, drop the rest) on a header
CleanHeader(h) ==
    LET kept == SelectSeq(h, IsLetterOrDigit) IN
    [i \in 1 .. Len(kept) |-> ToLower(kept[i])]

RECURSIVE JoinWithoutSeparator(_)
RECURSIVE JoinTokens(_)

\* variant: the tokens are joined without a separator
JoinWithoutSeparator(tokens) ==
    IF Len(tokens) = 0 THEN <<>>
    ELSE IF Len(tokens) = 1 THEN tokens[1]
    ELSE tokens[1] \o JoinWithoutSeparator(Tail(tokens))

\* strings.Join(normalized, "|")
JoinTokens(tokens) ==
    IF Len(tokens) = 0 THEN <<>>
    ELSE IF Len(tokens) = 1 THEN tokens[1]
    ELSE tokens[1] \o <<"|">> \o JoinTokens(Tail(tokens))

\* generateFingerprint on headers given as rune sequences: the cleaned
\* headers that are not empty, joined and hashed (the hex digest is kept as
\* the tagged text it is the digest of)
generateFingerprint(headers) ==
    LET clean == [i \in 1 .. Len(headers) |-> CleanHeader(headers[i])]
        NotEmpty(c) == c # <<>>
    IN  <<"sha256", JoinTokens(SelectSeq(clean, NotEmpty))>>

\* SuggestColumns on the header texts used by the files: the texts each
\* detection rule matches (lowercased and trimmed, strings.Contains or ==)
DateHeaders == {"Date", "Data"}
DescHeaders == {"Description", "Merchant"}
DebitHeaders == {"Debit"}
CreditHeaders == {"Credit"}
AmountHeaders == {"Amount", "Valor"}
CategoryHeaders == {"Category", "Tipo"}

\* zero-based index of the first header a rule matches, -1 when none does
FirstCol(headers, matching) ==
    IF \E i \in 1 .. Len(headers) : headers[i] \in matching
    THEN (CHOOSE i \in 1 .. Len(headers) :
            /\ headers[i] \in matching
            /\ \A j \in 1 .. i - 1 : headers[j] \notin matching) - 1
    ELSE -1

SuggestColumns(headers) ==
    [DateCol |-> FirstCol(headers, DateHeaders),
     DescCol |-> FirstCol(headers, DescHeaders),
     AmountCol |-> FirstCol(headers, AmountHeaders),
     DebitCol |-> FirstCol(headers, DebitHeaders),
     CreditCol |-> FirstCol(headers, CreditHeaders),
     CategoryCol |-> FirstCol(headers, CategoryHeaders),
     IsDoubleEntry |-> FirstCol(headers, DebitHeaders) # -1 /\ FirstCol(headers, CreditHeaders) # -1]

\* encoding/csv: the reader skips blank lines and yields the others as records
NotBlank(line) == line # <<>>

csvRecords(lines) == SelectSeq(lines, NotBlank)

\* ------------------------------------------------------------------------
\* Normalizer (package normalizer), on the field texts used by the files
\* ------------------------------------------------------------------------
ValidDates == {"13/02/2024", "14/02/2024", "15/02/2024", "16/02/2024"}

\* ParseFlexibleDate: "" stands for ErrInvalidDate
ParseFlexibleDate(raw) == IF raw \in ValidDates THEN raw ELSE ""

\* CleanDescription: trim and collapse white space
CleanDescription(raw) == IF raw = " " THEN "" ELSE raw

\* ParseAmount (American format): cents, or ErrInvalidAmount
ParseAmount(raw) ==
    CASE raw = "" -> [cents |-> 0, err |-> ""]
      [] raw = "10.50" -> [cents |-> 1050, err |-> ""]
      [] raw = "12.00" -> [cents |-> 1200, err |-> ""]
      [] raw = "5.00" -> [cents |-> 500, err |-> ""]
      [] raw = "-3.25" -> [cents |-> -325, err |-> ""]
      [] raw = "1.00" -> [cents |-> 100, err |-> ""]
      [] OTHER -> [cents |-> 0, err |-> "invalid amount format"]

\* ParseAmount on the runes of a text.  Natural numbers beyond the machine
\* integers of the checker are sequences of bits, lowest bit first, without
\* high zero bits; digits are sequences of 0..9, highest digit first.
RECURSIVE IntToBits(_)
RECURSIVE Inc(_)
RECURSIVE HalfDigits(_, _)
RECURSIVE DecToBits(_)
RECURSIVE MulSmall(_, _, _)
RECURSIVE DivLimbs(_, _)
RECURSIVE BitsToInt(_)
RECURSIVE Pow10(_)

IntToBits(n) == IF n = 0 THEN <<>> ELSE <<n % 2>> \o IntToBits(n \div 2)

BitsToInt(b) == IF b = <<>> THEN 0 ELSE Head(b) + 2 * BitsToInt(Tail(b))

Pow10(k) == IF k = 0 THEN 1 ELSE 10 * Pow10(k - 1)

Inc(b) ==
    IF b = <<>> THEN <<1>>
    ELSE IF Head(b) = 0 THEN <<1>> \o Tail(b)
    ELSE <<0>> \o Inc(Tail(b))

HalfDigits(d, carry) ==
    IF d = <<>> THEN <<>>
    ELSE LET t == carry * 10 + Head(d) IN <<t \div 2>> \o HalfDigits(Tail(d), t % 2)

DecToBits(d) ==
    IF \A i \in 1 .. Len(d) : d[i] = 0 THEN <<>>
    ELSE <<d[Len(d)] % 2>> \o DecToBits(HalfDigits(d, 0))

MulSmall(b, k, carry) ==
    IF b = <<>> THEN IntToBits(carry)
    ELSE LET t == k * Head(b) + carry IN <<t % 2>> \o MulSmall(Tail(b), k, t \div 2)

\* quotient (high zero bits included) and remainder of b by a small divisor,
\* by long division on limbs of LimbBits bits
LimbBits == 10

Limbs(b) ==
    [j \in 1 .. (Len(b) + LimbBits - 1) \div LimbBits |->
        BitsToInt(SubSeq(b, LimbBits * (j - 1) + 1,
                         IF LimbBits * j < Len(b) THEN LimbBits * j ELSE Len(b)))]

BitsOfLimbs(limbs) ==
    [i \in 1 .. LimbBits * Len(limbs) |->
        (limbs[(i - 1) \div LimbBits + 1] \div 2 ^ ((i - 1) % LimbBits)) % 2]

DivLimbs(limbs, d) ==
    IF limbs = <<>> THEN [q |-> <<>>, r |-> 0]
    ELSE LET hi == DivLimbs(Tail(limbs), d)
             t == hi.r * 2 ^ LimbBits + Head(limbs)
         IN  [q |-> <<t \div d>> \o hi.q, r |-> t % d]

DivSmall(b, d) ==
    LET res == DivLimbs(Limbs(b), d) IN [q |-> BitsOfLimbs(res.q), r |-> res.r]

HighBit(b) == IF \E i \in 1 .. Len(b) : b[i] = 1
              THEN CHOOSE i \in 1 .. Len(b) : b[i] = 1 /\ \A j \in i + 1 .. Len(b) : b[j] = 0
              ELSE 0

Norm(b) == SubSeq(b, 1, HighBit(b))

ShiftLeft(b, n) == IF b = <<>> THEN <<>> ELSE [i \in 1 .. n |-> 0] \o b

\* float64: 53 bits of mantissa; a float is m * 2^e, m a natural of at most
\* 53 bits (or 2^53), the sign kept apart; the exponent range is not reached
MantissaBits == 53
GuardBits == 70

\* round to nearest, ties to even: the mantissa of the bits m, inexact below
\* its lowest bit when sticky, and the number of bits dropped
RoundToEven(m, sticky) ==
    IF Len(m) <= MantissaBits THEN [m |-> m, dropped |-> 0]
    ELSE LET t == Len(m) - MantissaBits
             kept == SubSeq(m, t + 1, Len(m))
             rest == sticky \/ \E i \in 1 .. t - 1 : m[i] = 1
             up == m[t] = 1 /\ (rest \/ kept[1] = 1)
         IN  [m |-> IF up THEN Inc(kept) ELSE kept, dropped |-> t]

DigitRunes == {"0", "1", "2", "3", "4", "5", "6", "7", "8", "9"}

DigitValue(r) ==
    CASE r = "0" -> 0 [] r = "1" -> 1 [] r = "2" -> 2 [] r = "3" -> 3 [] r = "4" -> 4
      [] r = "5" -> 5 [] r = "6" -> 6 [] r = "7" -> 7 [] r = "8" -> 8 [] r = "9" -> 9

\* strconv.ParseFloat(s, 64) on a text of digits, "." and "-": the float
\* nearest to the decimal number, or a syntax error
ParseFloat(text) ==
    LET neg == text # <<>> /\ text[1] = "-"
        body == IF neg THEN Tail(text) ELSE text
        IsDigit(r) == r \in DigitRunes
        IsPoint(r) == r = "."
        digits == SelectSeq(body, IsDigit)
        points == SelectSeq(body, IsPoint)
        point == IF points = <<>> THEN Len(body) + 1
                 ELSE CHOOSE i \in 1 .. Len(body) : body[i] = "." /\ \A j \in 1 .. i - 1 : body[j] # "."
        decimals == Len(body) - point
        n == DecToBits([i \in 1 .. Len(digits) |-> DigitValue(digits[i])])
        div == DivSmall(ShiftLeft(n, GuardBits), Pow10(IF decimals < 0 THEN 0 ELSE decimals))
        rounded == RoundToEven(Norm(div.q), div.r # 0)
    IN  IF digits = <<>> \/ Len(points) > 1 \/ Len(digits) + Len(points) # Len(body)
        THEN [neg |-> FALSE, m |-> <<>>, e |-> 0, err |-> "invalid syntax"]
        ELSE [neg |-> neg, m |-> rounded.m, e |-> rounded.dropped - GuardBits, err |-> ""]

\* val * 100 in float64
TimesHundred(val) ==
    LET rounded == RoundToEven(MulSmall(val.m, 100, 0), FALSE) IN
    [neg |-> val.neg, m |-> rounded.m, e |-> val.e + rounded.dropped, err |-> ""]

\* variant: the float is truncated to an integer
Truncate(x) ==
    IF x.e >= 0 THEN ShiftLeft(x.m, x.e)
    ELSE IF -x.e > Len(x.m) THEN <<>>
    ELSE SubSeq(x.m, 1 - x.e, Len(x.m))

\* math.Round: the nearest integer, halves away from zero (magnitude)
Round(x) ==
    IF x.e >= 0 THEN ShiftLeft(x.m, x.e)
    ELSE IF -x.e > Len(x.m) THEN <<>>
    ELSE LET whole == SubSeq(x.m, 1 - x.e, Len(x.m)) IN
         IF x.m[-x.e] = 1 THEN Inc(whole) ELSE whole

\* strings.ReplaceAll on runes
ReplaceAll(text, old, new) ==
    LET Other(r) == r # old IN
    IF new = "" THEN SelectSeq(text, Other)
    ELSE [i \in 1 .. Len(text) |-> IF text[i] = old THEN new ELSE text[i]]

\* ParseAmount(raw, isEuropean) on the runes of raw: the cents as sign and
\* magnitude, or ErrInvalidAmount
ParseAmountRunes(raw, isEuropean) ==
    LET Kept(r) == r \in DigitRunes \cup {",", ".", "-"}
        cleaned == SelectSeq(raw, Kept)
        isNegative == cleaned # <<>> /\ cleaned[1] = "-"
        unsigned == IF isNegative THEN Tail(cleaned) ELSE cleaned
        plain == IF isEuropean
                 THEN ReplaceAll(ReplaceAll(unsigned, ".", ""), ",", ".")
                 ELSE ReplaceAll(unsigned, ",", "")
        val == ParseFloat(plain)
        cents == Round(TimesHundred(val))
    IN  IF raw = <<>> \/ cleaned = <<>> THEN [neg |-> FALSE, cents |-> <<>>, err |-> ""]
        ELSE IF val.err # "" THEN [neg |-> FALSE, cents |-> <<>>, err |-> "invalid amount format"]
        ELSE [neg |-> cents # <<>> /\ (isNegative # val.neg), cents |-> cents, err |-> ""]

\* ------------------------------------------------------------------------
\* parseRow (service.go)
\* ------------------------------------------------------------------------
NoTx == [date |-> "", desc |-> "", amount |-> 0, category |-> ""]

parseRow(record) ==
    LET maxCol == Len(record) - 1 IN
    IF DateCol > maxCol \/ DescCol > maxCol
    THEN [tx |-> NoTx, err |-> "column index out of bounds"]
    ELSE IF ParseFlexibleDate(record[DateCol + 1]) = ""
    THEN [tx |-> NoTx, err |-> "invalid date"]
    ELSE IF CleanDescription(record[DescCol + 1]) = ""
    THEN [tx |-> NoTx, err |-> "empty description"]
    ELSE IF AmountCol > maxCol
    THEN [tx |-> NoTx, err |-> "amount column index out of bounds"]
    ELSE IF ParseAmount(record[AmountCol + 1]).err # ""
    THEN [tx |-> NoTx, err |-> "invalid amount"]
    ELSE [tx |-> [date |-> ParseFlexibleDate(record[DateCol + 1]),
                  desc |-> CleanDescription(record[DescCol + 1]),
                  amount |-> ParseAmount(record[AmountCol + 1]).cents,
                  category |-> IF CategoryCol < Len(record)
                               THEN CleanDescription(record[CategoryCol + 1])
                               ELSE ""],
          err |-> ""]

\* generateExternalID (postgres_repository.go): the hash of date|description|amount,
\* represented by the hashed triple (the category is not hashed)
generateExternalID(tx) == <<tx.date, tx.desc, tx.amount>>


\* ------------------------------------------------------------------------
\* State
\* ------------------------------------------------------------------------
VARIABLES
    transactions,        \* table transactions: a bag of rows [user, source, ext, job]
    importJobs,          \* table import_jobs: job id (= invocation) -> row
    userFiles,           \* table user_files: the ids of the stored file records
    input,               \* arguments of invocation p: [user, file, workers] or NoInput
    faults,              \* the repository calls that may fail in this environment
    pc,                  \* position of ImportWithOptions(p)
    ctxCancelled,        \* the caller's ctx of invocation p is cancelled
    parseCancelled,      \* parseCtx of invocation p is cancelled
    skipLines,           \* config.SkipLines
    jobs,                \* channel jobs: queued parseJob values
    jobsClosed,
    results,             \* channel results: queued parseResult values
    resultsClosed,
    reader,              \* csv reader: number of records it has returned
    lineNum,             \* dispatcher's lineNum
    dpc,                 \* dispatcher: "off", "read", "sendJob", "sendErr", "done", "panic"
    wpc,                 \* worker w of p: "off", "recv", "send", "exit"
    wjob,                \* the parseJob worker w of p is holding
    errors,              \* errors (formatted messages)
    parseErrors,         \* parseErrors, in arrival order
    batch,
    rowsImported,
    rowsFailed,
    progressSinceUpdate,
    insertErr,
    insertAt,            \* BulkInsertTransactions: loop index i and totalInserted
    returned,            \* what ImportWithOptions(p) returned
    bulkCalls,           \* history: the BulkInsertTransactions calls of p
    progressCalls,       \* history: the UpdateImportJobProgress calls of p
    consumed,            \* history: the results the consumer received
    txsAtStart,          \* history: the tables and the other invocations when p started
    deleted,             \* history: the DeleteImportBatch calls and what they returned
    bankMappings,        \* table bank_mappings: a set of rows [id, user, fingerprint]
    analyzed,            \* history: the last AnalyzeFile call and what it returned
    applied              \* history: the last call of a function: [op, args, result]

dbVars == <<transactions, importJobs, userFiles>>
envVars == <<input, faults>>
callVars == <<deleted, bankMappings, analyzed, applied>>
ctxVars == <<ctxCancelled, parseCancelled>>
streamVars == <<jobs, jobsClosed, results, resultsClosed, reader, lineNum, dpc, wpc, wjob>>
localVars == <<errors, parseErrors, batch, rowsImported, rowsFailed, progressSinceUpdate,
               insertErr, insertAt>>
histVars == <<bulkCalls, progressCalls, consumed, txsAtStart>>
vars == <<dbVars, envVars, callVars, pc, ctxVars, skipLines, streamVars, localVars, returned, histVars>>

NoInput == [user |-> "", file |-> [lines |-> <<>>, rows |-> 0], workers |-> 0]
NoJob == [status |-> "absent", user |-> "", file |-> 0, rows_total |-> 0,
          rows_imported |-> 0, rows_failed |-> 0, finished_at |-> FALSE,
          error_message |-> ""]
NoReturn == [kind |-> "none", err |-> "", JobID |-> 0, RowsTotal |-> 0,
             RowsImported |-> 0, RowsFailed |-> 0, Errors |-> <<>>]
NoParseJob == [lineNum |-> 0, record |-> <<>>]
NullUser == ""
NoCall == [op |-> "none", args |-> <<>>, result |-> <<>>]
NoMapping == [id |-> 0, user |-> NullUser, fingerprint |-> <<>>]
NoAnalysis == [kind |-> "none", user |-> NullUser, fingerprint |-> <<>>, table |-> {},
               MappingFound |-> FALSE, CanAutoImport |-> FALSE, Mapping |-> NoMapping]

Workers(p) == 1 .. input[p].workers

\* runtime.GOMAXPROCS(0) workers, channels of workerCount*4
\* variant: the channels never have room for a value
NoRoom(p) == 0

\* make(chan ..., workerCount*4)
ChanCap(p) == input[p].workers * ChannelFactor

Min(a, b) == IF a < b THEN a ELSE b

\* a call through ctx fails when ctx is cancelled, and may fail when the
\* environment lets this kind of call fail
CallFails(p, call) ==
    IF ctxCancelled[p] THEN {TRUE}
    ELSE IF call \in faults THEN {TRUE, FALSE} ELSE {FALSE}

ErrorReturn(msg) == [NoReturn EXCEPT !.kind = "error", !.err = msg]

\* ------------------------------------------------------------------------
\* Repository (postgres_repository.go)
\* ------------------------------------------------------------------------
TxRow(user, tx, job) ==
    [user |-> user, source |-> "csv", ext |-> generateExternalID(tx), job |-> job]

\* variant: the conflict target also holds the import job
ConflictsWithinJob(table, row) ==
    \E r \in BagToSet(table) :
        r.user = row.user /\ r.source = row.source /\ r.ext = row.ext /\ r.job = row.job

\* variant: the conflict target leaves out the user
ConflictsAcrossUsers(table, row) ==
    \E r \in BagToSet(table) : r.source = row.source /\ r.ext = row.ext

\* ON CONFLICT (user_id, source, external_id) WHERE external_id IS NOT NULL
Conflicts(table, row) ==
    \E r \in BagToSet(table) :
        r.user = row.user /\ r.source = row.source /\ r.ext = row.ext

\* variant: RowsAffected counts the skipped rows too
InsertCountsEveryRow(table, user, job, txs) ==
    LET inserted == {row \in {TxRow(user, txs[k], job) : k \in 1 .. Len(txs)} :
                        ~Conflicts(table, row)}
    IN [table |-> table (+) SetToBag(inserted), affected |-> Len(txs)]

\* variant: the statement has no ON CONFLICT clause
InsertWithoutConflictClause(table, user, job, txs) ==
    LET inserted == {TxRow(user, txs[k], job) : k \in 1 .. Len(txs)}
    IN [table |-> table (+) SetToBag(inserted), affected |-> Len(txs)]

\* one INSERT ... VALUES (...), ... ON CONFLICT DO NOTHING statement of
\* BulkInsertTransactions: the rows that do not conflict with a stored row are
\* inserted, once per key; affected is RowsAffected
InsertOnConflictDoNothing(table, user, job, txs) ==
    LET inserted == {row \in {TxRow(user, txs[k], job) : k \in 1 .. Len(txs)} :
                        ~Conflicts(table, row)}
    IN [table |-> table (+) SetToBag(inserted), affected |-> Cardinality(inserted)]

\* UpdateImportJobProgress: UPDATE import_jobs SET rows_imported, rows_failed
UpdateImportJobProgress(table, id, imported, failed) ==
    IF table[id].status = "absent" THEN table
    ELSE [table EXCEPT ![id].rows_imported = imported, ![id].rows_failed = failed]

\* variant: the finishing UPDATE leaves rows_total alone
FinishImportJobKeepsTotal(table, id, status, imported, failed, msg) ==
    IF table[id].status = "absent" THEN table
    ELSE [table EXCEPT ![id].status = status,
                       ![id].rows_imported = imported,
                       ![id].rows_failed = failed,
                       ![id].error_message = msg,
                       ![id].finished_at = TRUE]

\* FinishImportJob: status, counters, error message, finished_at, rows_total
FinishImportJob(table, id, status, imported, failed, msg) ==
    IF table[id].status = "absent" THEN table
    ELSE [table EXCEPT ![id].status = status,
                       ![id].rows_imported = imported,
                       ![id].rows_failed = failed,
                       ![id].error_message = msg,
                       ![id].finished_at = TRUE,
                       ![id].rows_total = imported + failed]



\* variant: ORDER BY user_id NULLS FIRST
GetMappingGlobalFirst(table, fingerprint, user) ==
    LET own == {m \in table : m.fingerprint = fingerprint /\ m.user = user}
        global == {m \in table : m.fingerprint = fingerprint /\ m.user = NullUser}
    IN  IF global # {} THEN global
        ELSE IF own # {} THEN own
        ELSE {NoMapping}

\* GetMappingByFingerprint: WHERE fingerprint = $1 AND (user_id = $2 OR
\* user_id IS NULL) ORDER BY user_id NULLS LAST LIMIT 1.  The rows the query
\* may return (any row of the first rank), {NoMapping} for pgx.ErrNoRows
GetMappingByFingerprint(table, fingerprint, user) ==
    LET own == {m \in table : m.fingerprint = fingerprint /\ m.user = user}
        global == {m \in table : m.fingerprint = fingerprint /\ m.user = NullUser}
    IN  IF own # {} THEN own
        ELSE IF global # {} THEN global
        ELSE {NoMapping}

\* CreateMapping: INSERT INTO bank_mappings under UNIQUE (fingerprint,
\* user_id), in which NULL user ids are distinct; the table after it
CreateMapping(table, user, fingerprint) ==
    IF user # NullUser /\ \E m \in table : m.fingerprint = fingerprint /\ m.user = user
    THEN table
    ELSE table \cup {[id |-> Cardinality(table) + 1, user |-> user, fingerprint |-> fingerprint]}

\* variant: the delete matches the import job only
DeleteByJobOnly(table, user, job) ==
    LET gone == {r \in DOMAIN table : r.job = job} IN
    [table |-> [r \in DOMAIN table \ gone |-> table[r]],
     deleted |-> BagCardinality([r \in gone |-> table[r]])]

\* DELETE FROM transactions WHERE user_id = $1 AND import_job_id = $2:
\* the table after it and RowsAffected
DeleteByImportJobID(table, user, job) ==
    LET gone == {r \in DOMAIN table : r.user = user /\ r.job = job} IN
    [table |-> [r \in DOMAIN table \ gone |-> table[r]],
     deleted |-> BagCardinality([r \in gone |-> table[r]])]

\* a filter of ListTransactions: ImportJobID is NullJob when the filter has none
JobFilter(job, limit, offset) == [ImportJobID |-> job, Limit |-> limit, Offset |-> offset]

\* ListTransactions: the total count of the rows of the user that match the
\* filter and the number of rows of the page
ListTransactions(table, user, filter) ==
    LET matching == {r \in DOMAIN table :
                        /\ r.user = user
                        /\ filter.ImportJobID # NullJob => r.job = filter.ImportJobID}
        totalCount == BagCardinality([r \in matching |-> table[r]])
        limit == IF filter.Limit <= 0 \/ filter.Limit > 100 THEN 50 ELSE filter.Limit
        offset == IF filter.Offset < 0 THEN 0 ELSE filter.Offset
    IN  [rows |-> IF totalCount <= offset THEN 0 ELSE Min(limit, totalCount - offset),
         total |-> totalCount]

\* ------------------------------------------------------------------------
\* Pre-flight of ImportWithOptions (service.go 184-243)
\* ------------------------------------------------------------------------
\* resolveMapping: the resolved mapping and "" or the error
resolveMapping(headers, mapping) ==
    LET suggestions == SuggestColumns(headers)
        date == IF mapping.DateCol < 0 THEN suggestions.DateCol ELSE mapping.DateCol
        desc == IF mapping.DescCol < 0 THEN suggestions.DescCol ELSE mapping.DescCol
        category == IF mapping.CategoryCol < 0 /\ suggestions.CategoryCol >= 0
                    THEN suggestions.CategoryCol ELSE mapping.CategoryCol
        givenDouble == mapping.IsDoubleEntry \/ mapping.DebitCol >= 0 \/ mapping.CreditCol >= 0
        suggestedDouble == /\ ~givenDouble
                           /\ mapping.AmountCol < 0
                           /\ suggestions.AmountCol < 0
                           /\ suggestions.IsDoubleEntry
        double == givenDouble \/ suggestedDouble
        debit == IF (givenDouble /\ mapping.DebitCol < 0) \/ suggestedDouble
                 THEN suggestions.DebitCol ELSE mapping.DebitCol
        credit == IF (givenDouble /\ mapping.CreditCol < 0) \/ suggestedDouble
                  THEN suggestions.CreditCol ELSE mapping.CreditCol
        amount == IF ~givenDouble /\ mapping.AmountCol < 0 /\ suggestions.AmountCol >= 0
                  THEN suggestions.AmountCol ELSE mapping.AmountCol
        resolved == [DateCol |-> date, DescCol |-> desc, AmountCol |-> amount,
                     CategoryCol |-> category, DebitCol |-> debit, CreditCol |-> credit,
                     IsDoubleEntry |-> double]
        maxHeaderCol == Len(headers) - 1
    IN  [mapping |-> resolved,
         err |->
            IF date < 0 \/ desc < 0
            THEN "missing required columns for date/description"
            ELSE IF double /\ (debit < 0 \/ credit < 0)
            THEN "missing required debit/credit columns"
            ELSE IF ~double /\ amount < 0
            THEN "missing required amount column"
            ELSE IF maxHeaderCol >= 0 /\ (date > maxHeaderCol \/ desc > maxHeaderCol)
            THEN "column index out of bounds for detected headers"
            ELSE IF maxHeaderCol >= 0 /\ double /\ (debit > maxHeaderCol \/ credit > maxHeaderCol)
            THEN "debit/credit column index out of bounds for detected headers"
            ELSE IF maxHeaderCol >= 0 /\ ~double /\ amount > maxHeaderCol
            THEN "amount column index out of bounds for detected headers"
            ELSE ""]

\* the mapping argument of an invocation: the single-amount mapping of the
\* service tests with no debit and no credit column, as the handler builds
\* it, or one whose amount column lies beyond the header
TestMapping ==
    [DateCol |-> DateCol, DescCol |-> DescCol, AmountCol |-> AmountCol,
     CategoryCol |-> CategoryCol, DebitCol |-> -1, CreditCol |-> -1,
     IsDoubleEntry |-> FALSE]

Mappings == {TestMapping, [TestMapping EXCEPT !.AmountCol = Len(HeaderLine)]}

\* what resolveCurrencyCode may return for the account or the metadata lines:
\* a code, or "" for its errors
CurrencyOutcomes == {"EUR", ""}

\* variant: a rejected invocation leaves a failed job behind
RejectedWithFailedJob(p, msg) ==
    /\ returned' = [returned EXCEPT ![p] = ErrorReturn(msg)]
    /\ pc' = [pc EXCEPT ![p] = "done"]
    /\ importJobs' = [importJobs EXCEPT ![p] =
          [NoJob EXCEPT !.status = "failed", !.user = input[p].user,
                        !.finished_at = TRUE, !.error_message = msg]]
    /\ UNCHANGED <<skipLines, transactions, userFiles>>

\* return nil, err before any repository write
Rejected(p, msg) ==
    /\ returned' = [returned EXCEPT ![p] = ErrorReturn(msg)]
    /\ pc' = [pc EXCEPT ![p] = "done"]
    /\ UNCHANGED <<skipLines, dbVars>>

PreflightErrors == {"failed to detect file config", "failed to resolve column mapping",
                    "currency code not found"}

Preflight(p) ==
    /\ pc[p] = "start"
    /\ input[p] # NoInput
    /\ LET config == DetectConfigWithOptions(FileLines(input[p].file)) IN
       \E currencyCode \in CurrencyOutcomes, mapping \in Mappings :
         IF config.err # ""
         THEN Rejected(p, "failed to detect file config")
         ELSE IF resolveMapping(config.Headers, mapping).err # ""
         THEN Rejected(p, "failed to resolve column mapping")
         ELSE IF currencyCode = ""
         THEN Rejected(p, "currency code not found")
         ELSE /\ skipLines' = [skipLines EXCEPT ![p] = config.SkipLines]
              /\ pc' = [pc EXCEPT ![p] = "createFile"]
              /\ UNCHANGED <<returned, dbVars>>
    /\ txsAtStart' = [txsAtStart EXCEPT ![p] =
          [table |-> transactions,
           succeeded |-> {q \in Procs : importJobs[q].status = "succeeded"},
           running |-> {q \in Procs \ {p} : pc[q] \notin {"start", "done"}},
           finished |-> {q \in Procs \ {p} : pc[q] = "done"}]]
    /\ UNCHANGED <<envVars, callVars, ctxVars, streamVars, localVars,
                   bulkCalls, progressCalls, consumed>>

CreateUserFile(p) ==
    /\ pc[p] = "createFile"
    /\ \E fail \in CallFails(p, "CreateUserFile") :
         IF fail
         THEN /\ returned' = [returned EXCEPT ![p] = ErrorReturn("failed to create file record")]
              /\ pc' = [pc EXCEPT ![p] = "done"]
              /\ UNCHANGED userFiles
         ELSE /\ userFiles' = userFiles \cup {p}
              /\ pc' = [pc EXCEPT ![p] = "createJob"]
              /\ UNCHANGED returned
    /\ UNCHANGED <<transactions, importJobs, envVars, callVars, ctxVars, skipLines, streamVars,
                   localVars, histVars>>

\* variant: the job is created in the pending stage
NewImportJobPending(user, fileID) ==
    [NoJob EXCEPT !.status = "pending", !.user = user, !.file = fileID]

\* job := &repository.ImportJob{..., Status: "running", RowsTotal: 0}
NewImportJob(user, fileID) ==
    [NoJob EXCEPT !.status = "running", !.user = user, !.file = fileID]

CreateImportJob(p) ==
    /\ pc[p] = "createJob"
    /\ \E fail \in CallFails(p, "CreateImportJob") :
         IF fail
         THEN /\ returned' = [returned EXCEPT ![p] = ErrorReturn("failed to create import job")]
              /\ pc' = [pc EXCEPT ![p] = "done"]
              /\ UNCHANGED importJobs
         ELSE /\ importJobs' = [importJobs EXCEPT ![p] = NewImportJob(input[p].user, p)]
              /\ pc' = [pc EXCEPT ![p] = "parse"]
              /\ UNCHANGED returned
    /\ UNCHANGED <<transactions, userFiles, envVars, callVars, ctxVars, skipLines, streamVars,
                   localVars, histVars>>

\* ------------------------------------------------------------------------
\* parseTransactionsStream (service.go 357-440)
\* ------------------------------------------------------------------------
\* the records of the file of invocation p, as reader.Read() returns them:
\* RecordAt(p, k) is the k-th record of csvRecords(FileLines(input[p].file))
\* (the generated rows are never blank)
RecordCountOf(f) == Len(csvRecords(f.lines)) + f.rows + Len(csvRecords(f.tail))

RecordOf(f, k) ==
    LET literal == csvRecords(f.lines) IN
    IF k <= Len(literal) THEN literal[k]
    ELSE IF k <= Len(literal) + f.rows THEN BigRow(k - Len(literal))
    ELSE csvRecords(f.tail)[k - Len(literal) - f.rows]

RecordCount(p) == RecordCountOf(input[p].file)

RecordAt(p, k) == RecordOf(input[p].file, k)

parseTransactionsStream(p) ==
    /\ pc[p] = "parse"
    /\ IF RecordCount(p) < skipLines[p] + 1
       THEN \* io.EOF while skipping: closed empty channel, one pre-error
            /\ resultsClosed' = [resultsClosed EXCEPT ![p] = TRUE]
            /\ errors' = [errors EXCEPT ![p] = << <<"file has no data rows">> >>]
            /\ rowsFailed' = [rowsFailed EXCEPT ![p] = 1]
            /\ progressSinceUpdate' = [progressSinceUpdate EXCEPT ![p] = 1]
            /\ UNCHANGED <<reader, lineNum, dpc, wpc>>
       ELSE /\ reader' = [reader EXCEPT ![p] = skipLines[p] + 1]
            /\ lineNum' = [lineNum EXCEPT ![p] = skipLines[p] + 2]
            /\ dpc' = [dpc EXCEPT ![p] = "read"]
            /\ wpc' = [wpc EXCEPT ![p] =
                  [w \in 1 .. MaxWorkers |-> IF w \in Workers(p) THEN "recv" ELSE "off"]]
            /\ errors' = [errors EXCEPT ![p] = <<>>]
            /\ rowsFailed' = [rowsFailed EXCEPT ![p] = 0]
            /\ progressSinceUpdate' = [progressSinceUpdate EXCEPT ![p] = 0]
            /\ UNCHANGED resultsClosed
    /\ pc' = [pc EXCEPT ![p] = "loop"]
    /\ consumed' = [consumed EXCEPT ![p].upTo = skipLines[p] + 1]
    /\ UNCHANGED <<dbVars, envVars, callVars, ctxVars, skipLines, jobs, jobsClosed, results, wjob,
                   parseErrors, batch, rowsImported, insertErr, insertAt, returned,
                   bulkCalls, progressCalls, txsAtStart>>

\* a record on which reader.Read returns an error other than io.EOF
ReadErrLine == <<"#read-error">>

\* variant: the line number is not advanced
SameLine(n) == n

\* lineNum++
NextLine(n) == n + 1

\* dispatcher, top of the loop: ctx.Err(), then reader.Read()
DispatchRead(p) ==
    /\ dpc[p] = "read"
    /\ IF parseCancelled[p] \/ reader[p] >= RecordCount(p)
       THEN /\ dpc' = [dpc EXCEPT ![p] = "done"]
            /\ jobsClosed' = [jobsClosed EXCEPT ![p] = TRUE]
       ELSE /\ dpc' = [dpc EXCEPT ![p] = "send"]
            /\ UNCHANGED jobsClosed
    /\ UNCHANGED <<dbVars, envVars, callVars, pc, ctxVars, skipLines, jobs, results, resultsClosed,
                   reader, lineNum, wpc, wjob, localVars, returned, histVars>>

\* dispatcher, the select: send the job (or the read error), or ctx.Done()
DispatchSend(p) ==
    /\ dpc[p] = "send"
    /\ \E branch \in {"send", "done"} :
         IF branch = "done"
         THEN /\ parseCancelled[p]
              /\ dpc' = [dpc EXCEPT ![p] = "done"]
              /\ jobsClosed' = [jobsClosed EXCEPT ![p] = TRUE]
              /\ UNCHANGED <<jobs, results, reader, lineNum>>
         ELSE IF RecordAt(p, reader[p] + 1) = ReadErrLine
         THEN IF resultsClosed[p]
              THEN \* send on a closed channel
                   /\ dpc' = [dpc EXCEPT ![p] = "panic"]
                   /\ UNCHANGED <<jobs, jobsClosed, results, reader, lineNum>>
              ELSE /\ Len(results[p]) < ChanCap(p)
                   /\ results' = [results EXCEPT ![p] = Append(@,
                         [lineNum |-> lineNum[p], tx |-> NoTx, err |-> "read error"])]
                   /\ reader' = [reader EXCEPT ![p] = @ + 1]
                   /\ lineNum' = [lineNum EXCEPT ![p] = NextLine(@)]
                   /\ dpc' = [dpc EXCEPT ![p] = "read"]
                   /\ UNCHANGED <<jobs, jobsClosed>>
         ELSE /\ Len(jobs[p]) < ChanCap(p)
              /\ jobs' = [jobs EXCEPT ![p] = Append(@,
                    [lineNum |-> lineNum[p], record |-> RecordAt(p, reader[p] + 1)])]
              /\ reader' = [reader EXCEPT ![p] = @ + 1]
              /\ lineNum' = [lineNum EXCEPT ![p] = NextLine(@)]
              /\ dpc' = [dpc EXCEPT ![p] = "read"]
              /\ UNCHANGED <<jobsClosed, results>>
    /\ UNCHANGED <<dbVars, envVars, callVars, pc, ctxVars, skipLines, resultsClosed, wpc, wjob,
                   localVars, returned, histVars>>

\* worker: receive from jobs (range), then ctx.Err()
WorkerRecv(p, w) ==
    /\ wpc[p][w] = "recv"
    /\ IF jobs[p] # <<>>
       THEN /\ jobs' = [jobs EXCEPT ![p] = Tail(@)]
            /\ IF parseCancelled[p]
               THEN /\ wpc' = [wpc EXCEPT ![p][w] = "exit"]
                    /\ UNCHANGED wjob
               ELSE /\ wpc' = [wpc EXCEPT ![p][w] = "send"]
                    /\ wjob' = [wjob EXCEPT ![p][w] = Head(jobs[p])]
       ELSE /\ jobsClosed[p]
            /\ wpc' = [wpc EXCEPT ![p][w] = "exit"]
            /\ UNCHANGED <<jobs, wjob>>
    /\ UNCHANGED <<dbVars, envVars, callVars, pc, ctxVars, skipLines, jobsClosed, results,
                   resultsClosed, reader, lineNum, dpc, localVars, returned, histVars>>

\* worker: parseRow, then the select: send the result, or ctx.Done()
WorkerSend(p, w) ==
    /\ wpc[p][w] = "send"
    /\ \E branch \in {"send", "done"} :
         IF branch = "done"
         THEN /\ parseCancelled[p]
              /\ wpc' = [wpc EXCEPT ![p][w] = "exit"]
              /\ UNCHANGED results
         ELSE /\ Len(results[p]) < ChanCap(p)
              /\ results' = [results EXCEPT ![p] = Append(@,
                    [lineNum |-> wjob[p][w].lineNum,
                     tx |-> parseRow(wjob[p][w].record).tx,
                     err |-> parseRow(wjob[p][w].record).err])]
              /\ wpc' = [wpc EXCEPT ![p][w] = "recv"]
    /\ wjob' = [wjob EXCEPT ![p][w] = NoParseJob]
    /\ UNCHANGED <<dbVars, envVars, callVars, pc, ctxVars, skipLines, jobs, jobsClosed, resultsClosed,
                   reader, lineNum, dpc, localVars, returned, histVars>>

\* variant: the joiner waits for one worker only
wgWaitOne(p) == \E w \in Workers(p) : wpc[p][w] = "exit"

\* wg.Wait(): every worker has run its deferred wg.Done()
wgWait(p) == \A w \in Workers(p) : wpc[p][w] = "exit"

\* joiner: wg.Wait(), close(results)
Joiner(p) ==
    /\ dpc[p] # "off"
    /\ ~resultsClosed[p]
    /\ wgWait(p)
    /\ resultsClosed' = [resultsClosed EXCEPT ![p] = TRUE]
    /\ UNCHANGED <<dbVars, envVars, callVars, pc, ctxVars, skipLines, jobs, jobsClosed, results,
                   reader, lineNum, dpc, wpc, wjob, localVars, returned, histVars>>


\* ------------------------------------------------------------------------
\* The consumer: the loop over results, flushBatch, finalization
\* (service.go 250-347)
\* ------------------------------------------------------------------------
\* variant: a failing progress update marks the job failed
updateProgressFailsJob(p, imported, failed, fail) ==
    IF fail THEN [importJobs EXCEPT ![p].status = "failed"]
    ELSE UpdateImportJobProgress(importJobs, p, imported, failed)

\* the table import_jobs after updateProgress(), whose error is only logged
updateProgress(p, imported, failed, fail) ==
    IF fail THEN importJobs
    ELSE UpdateImportJobProgress(importJobs, p, imported, failed)

\* history of an updateProgress() call: its arguments, whether it failed, and
\* the number of results the consumer had processed when it was made
ProgressCall(imported, failed, fail, processed) ==
    [rowsImported |-> imported, rowsFailed |-> failed, failed |-> fail,
     processed |-> processed]

\* the results the consumer received and did not discard
Processed(h) == h.count - h.skipped

\* history of a BulkInsertTransactions call: the batch length it is given,
\* and once it returned, the count and whether an error came with it
BulkCall(size) == [size |-> size, failed |-> FALSE, returned |-> FALSE, count |-> 0]

BulkReturn(call, count, failed) ==
    [call EXCEPT !.returned = TRUE, !.count = count, !.failed = failed]

\* variant: results keep being processed after a failed bulk insert
NeverSkipsResult(err) == FALSE

\* if insertErr != nil { continue }
SkipsResult(err) == err # ""

\* variant: the batch is flushed once it holds more than importBatchSize rows
BatchOverfull(n) == n > importBatchSize

\* if len(batch) >= importBatchSize
BatchFull(n) == n >= importBatchSize

\* the line numbers received: every line up to upTo and the lines of ahead
RECURSIVE Advance(_, _)

Advance(upTo, ahead) ==
    IF upTo + 1 \in ahead THEN Advance(upTo + 1, ahead \ {upTo + 1})
    ELSE [upTo |-> upTo, ahead |-> ahead]

\* history of the consumer: results received, highest line number received,
\* whether a result arrived after one of a higher line number, the line
\* numbers received and whether one was received twice
Received(h, result) ==
    LET again == result.lineNum <= h.upTo \/ result.lineNum \in h.ahead
        lines == Advance(h.upTo, IF again THEN h.ahead ELSE h.ahead \cup {result.lineNum})
    IN
    [count |-> h.count + 1,
     maxLine |-> IF result.lineNum > h.maxLine THEN result.lineNum ELSE h.maxLine,
     outOfOrder |-> h.outOfOrder \/ result.lineNum < h.maxLine,
     skipped |-> h.skipped,
     upTo |-> lines.upTo,
     ahead |-> lines.ahead,
     twice |-> h.twice \/ again]

\* for result := range results { ... }   (one received result)
ConsumeResult(p) ==
    /\ pc[p] = "loop"
    /\ results[p] # <<>>
    /\ results' = [results EXCEPT ![p] = Tail(@)]
    /\ consumed' = [consumed EXCEPT ![p] =
          [Received(@, Head(results[p])) EXCEPT
              !.skipped = @ + (IF SkipsResult(insertErr[p]) THEN 1 ELSE 0)]]
    /\ LET result == Head(results[p]) IN
       \E fail \in CallFails(p, "UpdateImportJobProgress") :
         IF SkipsResult(insertErr[p])
         THEN UNCHANGED <<importJobs, pc, parseErrors, batch, rowsFailed,
                          progressSinceUpdate, insertAt, bulkCalls, progressCalls>>
         ELSE IF result.err # ""
         THEN /\ parseErrors' = [parseErrors EXCEPT ![p] =
                    Append(@, [lineNum |-> result.lineNum, err |-> result.err])]
              /\ rowsFailed' = [rowsFailed EXCEPT ![p] = @ + 1]
              /\ IF progressSinceUpdate[p] + 1 >= importProgressUpdateEvery
                 THEN /\ importJobs' = updateProgress(p, rowsImported[p], rowsFailed[p] + 1, fail)
                      /\ progressCalls' = [progressCalls EXCEPT ![p] =
                            Append(@, ProgressCall(rowsImported[p], rowsFailed[p] + 1, fail,
                                                   Processed(consumed'[p])))]
                      /\ progressSinceUpdate' = [progressSinceUpdate EXCEPT ![p] = 0]
                 ELSE /\ progressSinceUpdate' = [progressSinceUpdate EXCEPT ![p] = @ + 1]
                      /\ UNCHANGED <<importJobs, progressCalls>>
              /\ UNCHANGED <<pc, batch, insertAt, bulkCalls>>
         ELSE /\ batch' = [batch EXCEPT ![p] = Append(@, result.tx)]
              /\ IF BatchFull(Len(batch[p]) + 1)
                 THEN \* flushBatch: BulkInsertTransactions is entered
                      /\ pc' = [pc EXCEPT ![p] = "flush"]
                      /\ insertAt' = [insertAt EXCEPT ![p] = [i |-> 0, totalInserted |-> 0]]
                      /\ bulkCalls' = [bulkCalls EXCEPT ![p] =
                            Append(@, BulkCall(Len(batch[p]) + 1))]
                 ELSE UNCHANGED <<pc, insertAt, bulkCalls>>
              /\ UNCHANGED <<importJobs, parseErrors, rowsFailed, progressSinceUpdate,
                             progressCalls>>
    /\ UNCHANGED <<transactions, userFiles, envVars, callVars, ctxVars, skipLines, jobs, jobsClosed,
                   resultsClosed, reader, lineNum, dpc, wpc, wjob, errors, rowsImported,
                   insertErr, returned, txsAtStart>>

\* one statement of the loop of BulkInsertTransactions, and what flushBatch
\* does when the call returns
BulkInsertExec(p) ==
    /\ pc[p] \in {"flush", "finalFlush"}
    /\ LET i == insertAt[p].i
           end == Min(i + batchSize, Len(batch[p]))
           stmt == InsertOnConflictDoNothing(transactions, input[p].user, p,
                                             SubSeq(batch[p], i + 1, end))
           imported == insertAt[p].totalInserted + stmt.affected
           after == IF pc[p] = "flush" THEN "loop" ELSE "progress"
       IN
       \E fail \in CallFails(p, "BulkInsertTransactions") :
       \E failProgress \in CallFails(p, "UpdateImportJobProgress") :
         IF fail
         THEN \* return totalInserted, err: flushBatch returns err
              /\ insertErr' = [insertErr EXCEPT ![p] = "failed to insert transactions batch"]
              /\ bulkCalls' = [bulkCalls EXCEPT ![p][Len(bulkCalls[p])] =
                    BulkReturn(@, insertAt[p].totalInserted, TRUE)]
              /\ pc' = [pc EXCEPT ![p] = after]
              /\ parseCancelled' = [parseCancelled EXCEPT ![p] = @ \/ (pc[p] = "flush")]
              /\ UNCHANGED <<transactions, importJobs, batch, rowsImported,
                             progressSinceUpdate, insertAt, progressCalls>>
         ELSE /\ transactions' = stmt.table
              /\ IF end >= Len(batch[p])
                 THEN \* return totalInserted, nil
                      /\ rowsImported' = [rowsImported EXCEPT ![p] = @ + imported]
                      /\ batch' = [batch EXCEPT ![p] = <<>>]
                      /\ importJobs' = updateProgress(p, rowsImported[p] + imported,
                                                      rowsFailed[p], failProgress)
                      /\ progressCalls' = [progressCalls EXCEPT ![p] =
                            Append(@, ProgressCall(rowsImported[p] + imported,
                                                   rowsFailed[p], failProgress,
                                                   Processed(consumed[p])))]
                      /\ progressSinceUpdate' = [progressSinceUpdate EXCEPT ![p] = 0]
                      /\ pc' = [pc EXCEPT ![p] = after]
                      /\ bulkCalls' = [bulkCalls EXCEPT ![p][Len(bulkCalls[p])] =
                            BulkReturn(@, imported, FALSE)]
                      /\ UNCHANGED insertAt
                 ELSE /\ insertAt' = [insertAt EXCEPT ![p] =
                            [i |-> end, totalInserted |-> imported]]
                      /\ UNCHANGED <<importJobs, batch, rowsImported, progressSinceUpdate,
                                     progressCalls, pc, bulkCalls>>
              /\ UNCHANGED <<insertErr, parseCancelled>>
    /\ UNCHANGED <<userFiles, envVars, callVars, ctxCancelled, skipLines, streamVars, errors,
                   parseErrors, rowsFailed, returned, consumed, txsAtStart>>

\* the range loop ends (results closed and drained); the final flushBatch
LoopEnd(p) ==
    /\ pc[p] = "loop"
    /\ results[p] = <<>>
    /\ resultsClosed[p]
    /\ IF insertErr[p] = "" /\ batch[p] # <<>>
       THEN /\ pc' = [pc EXCEPT ![p] = "finalFlush"]
            /\ insertAt' = [insertAt EXCEPT ![p] = [i |-> 0, totalInserted |-> 0]]
            /\ bulkCalls' = [bulkCalls EXCEPT ![p] =
                  Append(@, BulkCall(Len(batch[p])))]
       ELSE /\ pc' = [pc EXCEPT ![p] = "progress"]
            /\ UNCHANGED <<insertAt, bulkCalls>>
    /\ UNCHANGED <<dbVars, envVars, callVars, ctxVars, skipLines, streamVars, errors, parseErrors,
                   batch, rowsImported, rowsFailed, progressSinceUpdate, insertErr,
                   returned, progressCalls, consumed, txsAtStart>>

\* variant: the final progress update is issued unconditionally
FinalUpdateAlways(since, err) == TRUE

\* if progressSinceUpdate > 0 && insertErr == nil
FinalUpdateDue(since, err) == since > 0 /\ err = ""

\* if progressSinceUpdate > 0 && insertErr == nil { updateProgress() }
FinalProgress(p) ==
    /\ pc[p] = "progress"
    /\ \E fail \in CallFails(p, "UpdateImportJobProgress") :
         IF FinalUpdateDue(progressSinceUpdate[p], insertErr[p])
         THEN /\ importJobs' = updateProgress(p, rowsImported[p], rowsFailed[p], fail)
              /\ progressCalls' = [progressCalls EXCEPT ![p] =
                    Append(@, ProgressCall(rowsImported[p], rowsFailed[p], fail,
                                           Processed(consumed[p])))]
         ELSE UNCHANGED <<importJobs, progressCalls>>
    /\ pc' = [pc EXCEPT ![p] = "finish"]
    /\ UNCHANGED <<transactions, userFiles, envVars, callVars, ctxVars, skipLines, streamVars,
                   localVars, returned, bulkCalls, consumed, txsAtStart>>

\* sort.Slice(parseErrors, by lineNum): position of element i in the sorted slice
SortRank(s, i) ==
    1 + Cardinality({j \in 1 .. Len(s) :
            \/ s[j].lineNum < s[i].lineNum
            \/ s[j].lineNum = s[i].lineNum /\ j < i})

\* variant: the parse errors are reported in their order of arrival
KeepArrivalOrder(s) == s

SortByLine(s) ==
    [k \in 1 .. Len(s) |-> s[CHOOSE i \in 1 .. Len(s) : SortRank(s, i) = k]]

\* fmt.Sprintf("line %d: %v", lineNum, err)
FormatLineError(e) == <<"line", e.lineNum, e.err>>

FormattedErrors(s) == [k \in 1 .. Len(s) |-> FormatLineError(s[k])]

\* variant: a job with failed rows is finalized as failed
FinishStatusStrict(err, failed) == IF err # "" \/ failed > 0 THEN "failed" ELSE "succeeded"

\* the status the job is finalized with
FinishStatus(err, failed) == IF err # "" THEN "failed" ELSE "succeeded"

\* sort and format the parse errors, FinishImportJob, return
FinishImport(p) ==
    /\ pc[p] = "finish"
    /\ errors' = [errors EXCEPT ![p] = @ \o FormattedErrors(SortByLine(parseErrors[p]))]
    /\ \E fail \in CallFails(p, "FinishImportJob") :
         importJobs' = IF fail THEN importJobs
                       ELSE FinishImportJob(importJobs, p,
                                FinishStatus(insertErr[p], rowsFailed[p]),
                                rowsImported[p], rowsFailed[p], insertErr[p])
    /\ IF insertErr[p] # ""
       THEN returned' = [returned EXCEPT ![p] = ErrorReturn("failed to insert transactions")]
       ELSE returned' = [returned EXCEPT ![p] =
                    [kind |-> "result", err |-> "", JobID |-> p,
                     RowsTotal |-> rowsImported[p] + rowsFailed[p],
                     RowsImported |-> rowsImported[p],
                     RowsFailed |-> rowsFailed[p],
                     Errors |-> errors'[p]]]
    /\ pc' = [pc EXCEPT ![p] = "done"]
    /\ parseCancelled' = [parseCancelled EXCEPT ![p] = TRUE]
    /\ UNCHANGED <<transactions, userFiles, envVars, callVars, ctxCancelled, skipLines, streamVars,
                   parseErrors, batch, rowsImported, rowsFailed, progressSinceUpdate,
                   insertErr, insertAt, histVars>>

\* the caller's scope is cancelled (request deadline, client gone)
CancelScope(p) ==
    /\ input[p] # NoInput
    /\ pc[p] # "done"
    /\ ~ctxCancelled[p]
    /\ ctxCancelled' = [ctxCancelled EXCEPT ![p] = TRUE]
    /\ parseCancelled' = [parseCancelled EXCEPT ![p] = TRUE]
    /\ UNCHANGED <<dbVars, envVars, callVars, pc, skipLines, streamVars, localVars, returned, histVars>>

\* FinanceHandler.DeleteImportBatch for user u and import job j
DeleteImportBatch(u, j) ==
    /\ Len(deleted) < MaxDeletes
    /\ LET result == DeleteByImportJobID(transactions, u, j) IN
       /\ transactions' = result.table
       /\ deleted' = Append(deleted, [user |-> u, job |-> j, DeletedCount |-> result.deleted])
    /\ UNCHANGED <<importJobs, userFiles, envVars, pc, ctxVars, skipLines, streamVars,
                   localVars, returned, histVars, bankMappings, analyzed, applied>>

\* the files given to AnalyzeFile and the fingerprints of their headers
AnalyzedFiles == {<<HeaderLine, RowA>>, <<MetaLine, OtherHeaderLine, RowB>>, <<MetaLine>>}

Fingerprints == {generateFingerprint(RunesOfHeaders(HeaderLine)),
                 generateFingerprint(RunesOfHeaders(OtherHeaderLine))}

\* ImportService.SaveMapping: a mapping of user u for a fingerprint
SaveMapping(u, fingerprint) ==
    /\ Cardinality(bankMappings) < MaxMappings
    /\ bankMappings' = CreateMapping(bankMappings, u, fingerprint)
    /\ UNCHANGED <<dbVars, envVars, deleted, analyzed, applied, pc, ctxVars, skipLines, streamVars,
                   localVars, returned, histVars>>

\* a global template is seeded (user_id NULL)
SeedGlobalMapping(fingerprint) ==
    /\ Cardinality(bankMappings) < MaxMappings
    /\ bankMappings' = CreateMapping(bankMappings, NullUser, fingerprint)
    /\ UNCHANGED <<dbVars, envVars, deleted, analyzed, applied, pc, ctxVars, skipLines, streamVars,
                   localVars, returned, histVars>>

\* ImportService.AnalyzeFile(userID, fileData)
AnalyzeFile(u, lines) ==
    /\ LET config == DetectConfig(lines)
           fingerprint == generateFingerprint(RunesOfHeaders(config.Headers))
           call == [NoAnalysis EXCEPT !.user = u, !.table = bankMappings]
       IN
       IF config.err # ""
       THEN analyzed' = [call EXCEPT !.kind = "error"]
       ELSE \E fail \in IF "GetMappingByFingerprint" \in faults THEN {TRUE, FALSE} ELSE {FALSE} :
            \E mapping \in GetMappingByFingerprint(bankMappings, fingerprint, u) :
              IF fail
              THEN analyzed' = [call EXCEPT !.kind = "error", !.fingerprint = fingerprint]
              ELSE analyzed' = [call EXCEPT !.kind = "result",
                                            !.fingerprint = fingerprint,
                                            !.MappingFound = (mapping # NoMapping),
                                            !.Mapping = mapping,
                                            !.CanAutoImport = (mapping # NoMapping)]
    /\ UNCHANGED <<dbVars, envVars, deleted, bankMappings, applied, pc, ctxVars, skipLines, streamVars,
                   localVars, returned, histVars>>

\* resolveMapping(config, mapping) for the headers of a config, once in a
\* behaviour
ResolveCall(headers, mapping) ==
    /\ applied = NoCall
    /\ applied' = [op |-> "resolveMapping", args |-> <<headers, mapping>>,
                   result |-> resolveMapping(headers, mapping)]
    /\ UNCHANGED <<dbVars, envVars, deleted, bankMappings, analyzed, pc, ctxVars, skipLines,
                   streamVars, localVars, returned, histVars>>

\* sniffer.DetectConfig(data) on the lines of a file, once in a behaviour
DetectCall(lines) ==
    /\ applied = NoCall
    /\ applied' = [op |-> "DetectConfig", args |-> <<lines>>, result |-> DetectConfig(lines)]
    /\ UNCHANGED <<dbVars, envVars, deleted, bankMappings, analyzed, pc, ctxVars, skipLines,
                   streamVars, localVars, returned, histVars>>

\* ListTransactions of a user on the stored table, once in a behaviour
ListCall(u, filter) ==
    /\ applied = NoCall
    /\ applied' = [op |-> "ListTransactions", args |-> <<u, filter>>,
                   result |-> ListTransactions(transactions, u, filter)]
    /\ UNCHANGED <<dbVars, envVars, deleted, bankMappings, analyzed, pc, ctxVars, skipLines,
                   streamVars, localVars, returned, histVars>>

\* ParseAmount of a text, once in a behaviour; cents is the amount the text
\* was written from
AmountCall(raw, isEuropean, cents) ==
    /\ applied = NoCall
    /\ applied' = [op |-> "ParseAmount", args |-> <<raw, isEuropean, cents>>,
                   result |-> ParseAmountRunes(raw, isEuropean)]
    /\ UNCHANGED <<dbVars, envVars, deleted, bankMappings, analyzed, pc, ctxVars, skipLines,
                   streamVars, localVars, returned, histVars>>

\* generateFingerprint of two header lists, once in a behaviour
FingerprintCall(headers, others) ==
    /\ applied = NoCall
    /\ applied' = [op |-> "generateFingerprint", args |-> <<headers, others>>,
                   result |-> <<generateFingerprint(headers), generateFingerprint(others)>>]
    /\ UNCHANGED <<dbVars, envVars, deleted, bankMappings, analyzed, pc, ctxVars, skipLines,
                   streamVars, localVars, returned, histVars>>

\* ------------------------------------------------------------------------
\* Inputs and specifications
\* ------------------------------------------------------------------------
Prefixes == {<<>>, <<MetaLine>>}
DataRows == {RowA, RowA2, RowB, RowBadDate, RowBadAmount, RowNoDesc, RowShort}
NoHeaderFiles == {<<>>, <<MetaLine>>}

FilesOf(prefixes, rows, n) ==
    {[lines |-> pre \o <<HeaderLine>> \o data, rows |-> 0, tail |-> <<>>] :
        pre \in prefixes, data \in SeqUpTo(rows, n)}

NoHeader == {[lines |-> lines, rows |-> 0, tail |-> <<>>] : lines \in NoHeaderFiles}

\* rows of earlier imports the database may hold when the service is constructed
PriorRows ==
    {[user |-> "u1", source |-> "csv",
      ext |-> generateExternalID(parseRow(RowA).tx), job |-> NullJob],
     [user |-> "u2", source |-> "csv",
      ext |-> generateExternalID(parseRow(RowB).tx), job |-> NullJob]}

InitWith(inputs, faultSet, priors) ==
    /\ input \in inputs
    /\ faults = faultSet
    /\ transactions \in {SetToBag(rows) : rows \in priors}
    /\ importJobs = [p \in Procs |-> NoJob]
    /\ userFiles = {}
    /\ pc = [p \in Procs |-> "start"]
    /\ ctxCancelled = [p \in Procs |-> FALSE]
    /\ parseCancelled = [p \in Procs |-> FALSE]
    /\ skipLines = [p \in Procs |-> 0]
    /\ jobs = [p \in Procs |-> <<>>]
    /\ jobsClosed = [p \in Procs |-> FALSE]
    /\ results = [p \in Procs |-> <<>>]
    /\ resultsClosed = [p \in Procs |-> FALSE]
    /\ reader = [p \in Procs |-> 0]
    /\ lineNum = [p \in Procs |-> 0]
    /\ dpc = [p \in Procs |-> "off"]
    /\ wpc = [p \in Procs |-> [w \in 1 .. MaxWorkers |-> "off"]]
    /\ wjob = [p \in Procs |-> [w \in 1 .. MaxWorkers |-> NoParseJob]]
    /\ errors = [p \in Procs |-> <<>>]
    /\ parseErrors = [p \in Procs |-> <<>>]
    /\ batch = [p \in Procs |-> <<>>]
    /\ rowsImported = [p \in Procs |-> 0]
    /\ rowsFailed = [p \in Procs |-> 0]
    /\ progressSinceUpdate = [p \in Procs |-> 0]
    /\ insertErr = [p \in Procs |-> ""]
    /\ insertAt = [p \in Procs |-> [i |-> 0, totalInserted |-> 0]]
    /\ returned = [p \in Procs |-> NoReturn]
    /\ bulkCalls = [p \in Procs |-> <<>>]
    /\ progressCalls = [p \in Procs |-> <<>>]
    /\ consumed = [p \in Procs |->
          [count |-> 0, maxLine |-> 0, outOfOrder |-> FALSE, skipped |-> 0,
           upTo |-> 0, ahead |-> {}, twice |-> FALSE]]
    /\ deleted = <<>>
    /\ bankMappings = {}
    /\ analyzed = NoAnalysis
    /\ applied = NoCall
    /\ txsAtStart = [p \in Procs |-> [table |-> EmptyBag, succeeded |-> {}, running |-> {}, finished |-> {}]]

\* one invocation, small files, any worker count; bulk inserts may fail
OneImport ==
    {[p \in Procs |-> IF p = 1 THEN in ELSE NoInput] :
        in \in [user : {"u1"}, file : FilesOf(Prefixes, DataRows, MaxRows) \cup NoHeader,
                workers : 1 .. MaxWorkers]}

Init == InitWith(OneImport, {"BulkInsertTransactions"}, {{}, PriorRows})

Next ==
    \E p \in Procs :
        \/ Preflight(p)
        \/ CreateUserFile(p)
        \/ CreateImportJob(p)
        \/ parseTransactionsStream(p)
        \/ DispatchRead(p)
        \/ DispatchSend(p)
        \/ \E w \in Workers(p) : WorkerRecv(p, w)
        \/ \E w \in Workers(p) : WorkerSend(p, w)
        \/ Joiner(p)
        \/ ConsumeResult(p)
        \/ BulkInsertExec(p)
        \/ LoopEnd(p)
        \/ FinalProgress(p)
        \/ FinishImport(p)

Spec == Init /\ [][Next]_vars


\* every repository call may fail and the caller's scope may be cancelled
AllCalls == {"CreateUserFile", "CreateImportJob", "BulkInsertTransactions",
             "UpdateImportJobProgress", "FinishImportJob"}

OneImportEnv ==
    {[p \in Procs |-> IF p = 1 THEN in ELSE NoInput] :
        in \in [user : {"u1"},
                file : FilesOf(Prefixes, {RowA, RowB, RowBadDate}, MaxRowsTwo) \cup NoHeader,
                workers : 1 .. MaxWorkers]}

InitEnv == InitWith(OneImportEnv, AllCalls, {{}, PriorRows})

NextEnv == Next \/ \E p \in Procs : CancelScope(p)

SpecEnv == InitEnv /\ [][NextEnv]_vars

\* two invocations that may overlap in time, one worker each
TwoImports ==
    {[p \in Procs |-> IF p = 1 THEN in1 ELSE in2] :
        in1 \in [user : {"u1"}, file : FilesOf({<<>>}, {RowA, RowB}, MaxRowsTwo),
                 workers : {1}],
        in2 \in [user : Users, file : FilesOf({<<>>}, {RowA, RowB}, MaxRowsTwo),
                 workers : {1}]}

InitTwo == InitWith(TwoImports, {"BulkInsertTransactions"}, {{}})

SpecTwo == InitTwo /\ [][Next]_vars

\* one invocation, one worker, on a file of hundreds of well-formed rows that
\* may end with a malformed row, or on a file of a few rows
BigFile(n, tail) == [lines |-> <<HeaderLine>>, rows |-> n, tail |-> tail]

BigSizes == {importBatchSize, BigRows}
BigTails == {<<>>, <<RowBadDate>>}

BatchFiles ==
    {BigFile(n, tail) : n \in BigSizes, tail \in BigTails}
        \cup FilesOf({<<>>}, {RowA, RowBadDate}, MaxRowsTwo)

\* one invocation, one worker, no failing call, on a file of importBatchSize
\* well-formed rows that may follow two malformed rows
BigFileAfter(head, n) == [lines |-> <<HeaderLine>> \o head, rows |-> n, tail |-> <<>>]

BigHeads == {<<>>, <<RowBadDate, RowBadAmount>>}

OneMixedImport ==
    {[p \in Procs |-> IF p = 1 THEN in ELSE NoInput] :
        in \in [user : {"u1"},
                file : {BigFileAfter(head, importBatchSize) : head \in BigHeads},
                workers : {1}]}

InitMixed == InitWith(OneMixedImport, {}, {{}})

SpecMixed == InitMixed /\ [][Next]_vars

\* one invocation whose progress updates may fail, on a small file or on a
\* file of BigRows well-formed rows and a malformed one
OneProgressImport ==
    {[p \in Procs |-> IF p = 1 THEN in ELSE NoInput] :
        in \in [user : {"u1"},
                file : FilesOf({<<>>}, {RowA, RowB, RowBadDate}, MaxRowsTwo),
                workers : 1 .. MaxWorkers]
              \cup [user : {"u1"}, file : {BigFile(BigRows, <<RowBadDate>>)}, workers : {1}]}

InitProgress == InitWith(OneProgressImport, {"UpdateImportJobProgress"}, {{}, PriorRows})

SpecProgress == InitProgress /\ [][Next]_vars

\* two invocations of one worker on files of at most MaxRowsOne rows, rows
\* stored before, and a deletion of an import batch at any moment
TwoSmallImports ==
    {[p \in Procs |-> IF p = 1 THEN in1 ELSE in2] :
        in1 \in [user : {"u1"}, file : FilesOf({<<>>}, {RowA, RowB}, MaxRowsOne),
                 workers : {1}],
        in2 \in [user : Users, file : FilesOf({<<>>}, {RowA, RowB}, MaxRowsOne),
                 workers : {1}]}

InitDelete == InitWith(TwoSmallImports, {}, {{}, PriorRows})

NextDelete == Next \/ \E u \in Users, j \in Procs : DeleteImportBatch(u, j)

SpecDelete == InitDelete /\ [][NextDelete]_vars

\* two invocations of different users that may overlap in time, one worker
\* each, with and without rows of both users stored before
TwoUsers ==
    {[p \in Procs |-> IF p = 1 THEN in1 ELSE in2] :
        in1 \in [user : {"u1"}, file : FilesOf({<<>>}, {RowA, RowB}, MaxRowsTwo),
                 workers : {1}],
        in2 \in [user : {"u2"}, file : FilesOf({<<>>}, {RowA, RowB, RowBadDate}, MaxRowsTwo),
                 workers : {1}]}

InitUsers == InitWith(TwoUsers, {}, {{}, PriorRows})

SpecUsers == InitUsers /\ [][Next]_vars

\* no import: mappings are saved and seeded and files analyzed, the lookup
\* of a mapping being free to fail
NoImport == {[p \in Procs |-> NoInput]}

InitMapping == InitWith(NoImport, {"GetMappingByFingerprint"}, {{}})

NextMapping ==
    \/ \E u \in Users, f \in Fingerprints : SaveMapping(u, f)
    \/ \E f \in Fingerprints : SeedGlobalMapping(f)
    \/ \E u \in Users, lines \in AnalyzedFiles : AnalyzeFile(u, lines)

SpecMapping == InitMapping /\ [][NextMapping]_vars

\* resolveMapping on header lines as the sniffer detects them (four fields
\* or more) and on mappings whose indices are absent, inside the header or
\* beyond it
ResolvedHeaders ==
    {HeaderLine, OtherHeaderLine,
     <<"Date", "Description", "Debit", "Credit">>,
     <<"Date", "Description", "Debit", "Credit", "Amount">>,
     <<"Account", "Balance", "Debit", "Credit">>,
     <<"Data", "Merchant", "Debit", "Balance", "Tipo">>}

GivenMappings ==
    [DateCol : {-1, 0, 5}, DescCol : {-1, 1}, AmountCol : {-1, 2, 5},
     CategoryCol : {-1, 3, 5}, DebitCol : {-1, 2, 5}, CreditCol : {-1, 3},
     IsDoubleEntry : BOOLEAN]

InitResolve == InitWith(NoImport, {}, {{}})

NextResolve == \E headers \in ResolvedHeaders, mapping \in GivenMappings : ResolveCall(headers, mapping)

SpecResolve == InitResolve /\ [][NextResolve]_vars

\* DetectConfig on files of 0 .. HeaderSearchLimit + 2 lines that are no
\* header (metadata, blank, or a keyword with too few fields), followed by a
\* header line or none and by data rows
Repeated(line, n) == [i \in 1 .. n |-> line]

FillerLines == {MetaLine, <<>>, <<"Date", "Account">>}

SniffedFiles ==
    {Repeated(filler, n) \o header \o rows :
        filler \in FillerLines,
        n \in 0 .. HeaderSearchLimit + 2,
        header \in {<<>>, <<HeaderLine>>, <<OtherHeaderLine>>},
        rows \in {<<>>, <<RowA>>, <<RowA, HeaderLine>>}}

InitSniff == InitWith(NoImport, {}, {{}})

NextSniff == \E lines \in SniffedFiles : DetectCall(lines)

SpecSniff == InitSniff /\ [][NextSniff]_vars

\* generateFingerprint on every pair of lists of at most MaxHeaders headers
\* of at most MaxRunes runes: a letter in both cases, a digit, punctuation,
\* whitespace
HeaderAlphabet == {"a", "A", "1", ".", " "}

ShortHeaders == SeqUpTo(HeaderAlphabet, MaxRunes)

HeaderLists == SeqUpTo(ShortHeaders, MaxHeaders)

InitFingerprint == InitWith(NoImport, {}, {{}})

\* the inputs of a call that is made once in a behaviour
UntilCalled(inputs) == IF applied = NoCall THEN inputs ELSE {}

NextFingerprint ==
    \E headers \in UntilCalled(HeaderLists), others \in HeaderLists :
        FingerprintCall(headers, others)

SpecFingerprint == InitFingerprint /\ [][NextFingerprint]_vars

\* ParseAmount on amounts of cents written in either dialect with thousands
\* separators and two decimals, as the texts of the normalizer tests are:
\* every amount up to MaxSmallCents and, for every number of digits up to the
\* one of MaxCents, amounts of a leading digit, a repeated digit and two
\* last digits; in both signs
RECURSIVE DigitsOf(_)
RECURSIVE Flatten(_)

DigitsOf(n) == IF n < 10 THEN <<n>> ELSE DigitsOf(n \div 10) \o <<n % 10>>

Flatten(seqs) == IF seqs = <<>> THEN <<>> ELSE Head(seqs) \o Flatten(Tail(seqs))

MaxCents == <<1>> \o [i \in 1 .. 12 |-> 0]

LastDigits == {<<0, 0>>, <<0, 1>>, <<2, 9>>, <<5, 0>>, <<9, 9>>}

LargeCents ==
    {<<1>> \o [i \in 1 .. n - 3 |-> fill] \o last :
        n \in 4 .. Len(MaxCents) - 1, fill \in {0, 5, 9}, last \in LastDigits}
    \cup {<<9>> \o [i \in 1 .. n - 3 |-> fill] \o last :
        n \in 4 .. Len(MaxCents) - 1, fill \in {0, 5, 9}, last \in LastDigits}
    \cup {MaxCents}

CentsDigits == {DigitsOf(n) : n \in 0 .. MaxSmallCents} \cup LargeCents

CentsInputs ==
    {[neg |-> neg, digits |-> d] : neg \in BOOLEAN, d \in CentsDigits} \ {[neg |-> TRUE, digits |-> <<0>>]}

DigitRune(d) ==
    CASE d = 0 -> "0" [] d = 1 -> "1" [] d = 2 -> "2" [] d = 3 -> "3" [] d = 4 -> "4"
      [] d = 5 -> "5" [] d = 6 -> "6" [] d = 7 -> "7" [] d = 8 -> "8" [] d = 9 -> "9"

\* the text of an amount of cents: 1.234,56 (European) or 1,234.56
FormatAmount(cents, isEuropean) ==
    LET padded == IF Len(cents.digits) < 3
                  THEN [i \in 1 .. 3 - Len(cents.digits) |-> 0] \o cents.digits
                  ELSE cents.digits
        whole == SubSeq(padded, 1, Len(padded) - 2)
        thousands == IF isEuropean THEN "." ELSE ","
        decimal == IF isEuropean THEN "," ELSE "."
        grouped == Flatten([i \in 1 .. Len(whole) |->
                      IF i > 1 /\ (Len(whole) - i + 1) % 3 = 0
                      THEN <<thousands, DigitRune(whole[i])>>
                      ELSE <<DigitRune(whole[i])>>])
    IN  (IF cents.neg THEN <<"-">> ELSE <<>>)
        \o grouped \o <<decimal, DigitRune(padded[Len(padded) - 1]), DigitRune(padded[Len(padded)])>>

NoCents == [neg |-> FALSE, digits |-> <<0>>]

InitAmount == InitWith(NoImport, {}, {{}})

NextAmount ==
    \/ \E cents \in CentsInputs, isEuropean \in BOOLEAN :
          AmountCall(FormatAmount(cents, isEuropean), isEuropean, cents)
    \/ \E isEuropean \in BOOLEAN : AmountCall(<<>>, isEuropean, NoCents)

SpecAmount == InitAmount /\ [][NextAmount]_vars

\* ListTransactions on tables of up to MaxListed rows of user u1, the first
\* half of a job and the others of none, beside the rows of another user;
\* limits and offsets around the default and the maximum of the page size
ListedRows(n) ==
    {TxRow("u1", parseRow(BigRow(i)).tx, IF 2 * i <= n THEN 1 ELSE NullJob) : i \in 1 .. n}
    \cup {r \in PriorRows : r.user = "u2"}

ListedTables == {ListedRows(n) : n \in {0, 1, 50, 51, 100, 101, MaxListed}}

ListLimits == {-1, 0, 1, 49, 50, 51, 100, 101, MaxListed}

ListOffsets == {-1, 0, 1, 50, 51, 100, MaxListed}

InitList == InitWith(NoImport, {}, ListedTables)

NextList ==
    \E u \in Users, job \in {NullJob, 1}, limit \in ListLimits, offset \in ListOffsets :
        ListCall(u, JobFilter(job, limit, offset))

SpecList == InitList /\ [][NextList]_vars

\* one invocation, no failing call, on files whose lines before the header
\* are metadata lines and blank lines, and whose data may hold a blank line
BlankLine == <<>>

BlankPrefixes == SeqUpTo({MetaLine, BlankLine}, MaxRowsTwo)

OneImportBlank ==
    {[p \in Procs |-> IF p = 1 THEN in ELSE NoInput] :
        in \in [user : {"u1"},
                file : FilesOf(BlankPrefixes, {RowA, RowB, BlankLine}, MaxRowsTwo),
                workers : 1 .. MaxWorkers]}

InitBlank == InitWith(OneImportBlank, {}, {{}})

SpecBlank == InitBlank /\ [][Next]_vars

\* the same files, every repository call free to fail, the scope cancelled at
\* any step or never
InitBlankEnv == InitWith(OneImportBlank, AllCalls, {{}, PriorRows})

SpecBlankEnv == InitBlankEnv /\ [][NextEnv]_vars

OneBigImport ==
    {[p \in Procs |-> IF p = 1 THEN in ELSE NoInput] :
        in \in [user : {"u1"}, file : BatchFiles, workers : {1}]}

InitBatch == InitWith(OneBigImport, {"BulkInsertTransactions"}, {{}})

SpecBatch == InitBatch /\ [][Next]_vars

\* the invocations of SpecEnv, or one invocation with one worker on a file
\* of more rows than a batch and than the channels hold, whose bulk insert
\* may fail while the stream runs.  The scope may be cancelled at any time,
\* or never; the tasks are scheduled: while some goroutine can take a step
\* or some repository call can return, one of them does
OneLongImport ==
    {[p \in Procs |-> IF p = 1 THEN in ELSE NoInput] :
        in \in [user : {"u1"}, file : {BigFile(BigRows, <<>>)}, workers : {1}]}

InitStop == InitEnv \/ InitWith(OneLongImport, {"BulkInsertTransactions"}, {{}})

SpecStop == InitStop /\ [][NextEnv]_vars /\ WF_vars(Next)

\* ------------------------------------------------------------------------
\* Properties
\* ------------------------------------------------------------------------
\* the invocation passed the preflight, created its job and returned
Ended(p) == pc[p] = "done" /\ importJobs[p].status # "absent"

\* the data records of p's file: those after the first skipLines + 1 records
DataCount(p) == RecordCount(p) - (skipLines[p] + 1)
DataRecord(p, k) == RecordAt(p, skipLines[p] + 1 + k)
FailingRows(p) == {k \in 1 .. DataCount(p) : parseRow(DataRecord(p, k)).err # ""}
ParsedRows(p) == {k \in 1 .. DataCount(p) : parseRow(DataRecord(p, k)).err = ""}

Terminal == {"succeeded", "failed"}

\* C3: the status of a job only moves forward.  A job comes into existence
\* with status running (the pending stage is never persisted), the only other
\* changes of status are running -> succeeded and running -> failed, and a
\* succeeded or failed job keeps its status in every later step.  Checked
\* with every repository call allowed to fail and the caller's scope
\* allowed to be cancelled.
StatusOnlyMovesForward ==
    [][\A p \in Procs :
         LET old == importJobs[p].status
             new == importJobs'[p].status
         IN  old # new =>
                 \/ old = "absent" /\ new = "running"
                 \/ old = "running" /\ new \in Terminal]_vars

\* a job went from running to failed, another step of the system followed
FailedJobReached ==
    \E p \in Procs :
        /\ importJobs[p].status = "failed"
        /\ Len(bulkCalls[p]) > 0
        /\ returned[p].kind = "error"

ExtIds(p) == {generateExternalID(parseRow(DataRecord(p, k)).tx) : k \in ParsedRows(p)}

\* q ran on the same user and the same file as p and had succeeded when p started
Reimports(p, q) ==
    /\ q # p
    /\ pc[p] # "start"
    /\ q \in txsAtStart[p].succeeded
    /\ input[q].user = input[p].user
    /\ input[q].file = input[p].file

\* the rows of user u in a table, but for those inserted by the jobs in excl
UserTable(table, u, excl) ==
    [r \in {x \in DOMAIN table : x.user = u /\ x.job \notin excl} |-> table[r]]

\* C1: a run of ImportWithOptions on the user and file of a run that had
\* succeeded before it started imports nothing: its count of imported rows
\* stays 0 in every state, also in the ImportResult it returns, and the
\* stored transactions of the user (those of invocations still running
\* beside it left aside) are the ones stored when it started.  No stored
\* transaction is deleted between the two runs.
ReimportAddsNothing ==
    \A p, q \in Procs :
        Reimports(p, q) =>
            /\ rowsImported[p] = 0
            /\ returned[p].kind = "result" => returned[p].RowsImported = 0
            /\ \A k \in 1 .. Len(progressCalls[p]) : progressCalls[p][k].rowsImported = 0
            /\ LET others == Procs \ (txsAtStart[p].finished \cup {p}) IN
               UserTable(transactions, input[p].user, others)
                   = UserTable(txsAtStart[p].table, input[p].user, others)

\* the second run of a file with rows that parse has returned its result,
\* after a bulk insert of rows that were all stored already
ReimportReturned ==
    \E p, q \in Procs :
        /\ Reimports(p, q)
        /\ returned[p].kind = "result"
        /\ rowsImported[q] > 0
        /\ \E k \in 1 .. Len(bulkCalls[p]) : bulkCalls[p][k].size > 0 /\ ~bulkCalls[p][k].failed

\* C2: no two stored transactions have the same (user, source, external id),
\* in every reachable state of two invocations interleaved step by step,
\* the two importing the same file for the same user included.
ExternalIdsAreUnique ==
    \A r1 \in DOMAIN transactions :
        /\ transactions[r1] <= 1
        /\ \A r2 \in DOMAIN transactions :
              (r1.user = r2.user /\ r1.source = r2.source /\ r1.ext = r2.ext) => r1 = r2

\* two invocations of one user that ran side by side on files sharing a row
\* have both returned a result
ConcurrentImportsReturned ==
    \E p, q \in Procs :
        /\ q \in txsAtStart[p].running
        /\ input[p].user = input[q].user
        /\ ExtIds(p) \cap ExtIds(q) # {}
        /\ returned[p].kind = "result"
        /\ returned[q].kind = "result"

\* C5: when ImportWithOptions has returned an ImportResult, the persisted job
\* has status succeeded and its rows_imported and rows_failed equal the
\* RowsImported and RowsFailed of the result; repository calls may fail, the
\* finishing call included.
ResultMatchesPersistedJob ==
    \A p \in Procs :
        returned[p].kind = "result" =>
            /\ importJobs[p].status = "succeeded"
            /\ importJobs[p].rows_imported = returned[p].RowsImported
            /\ importJobs[p].rows_failed = returned[p].RowsFailed

\* C7: rows that fail to parse never fail the job.  When an invocation has
\* returned and none of its bulk inserts failed, it returned an ImportResult,
\* its job is succeeded, rows_failed and RowsFailed are the number of data
\* rows that fail to parse, Errors holds exactly one entry per such row, and
\* every row that parses is stored for the user.  No call other than a bulk
\* insert fails and the caller's scope is not cancelled.
ParseFailuresNeverFailTheJob ==
    \A p \in Procs :
        (Ended(p) /\ insertErr[p] = "") =>
            /\ returned[p].kind = "result"
            /\ importJobs[p].status = "succeeded"
            /\ importJobs[p].rows_failed = Cardinality(FailingRows(p))
            /\ returned[p].RowsFailed = Cardinality(FailingRows(p))
            /\ Len(returned[p].Errors) = Cardinality(FailingRows(p))
            /\ \A k \in FailingRows(p) :
                  Cardinality({i \in 1 .. Len(returned[p].Errors) :
                      returned[p].Errors[i][2] = skipLines[p] + 1 + k}) = 1
            /\ \A k \in ParsedRows(p) :
                  \E r \in BagToSet(transactions) :
                      /\ r.user = input[p].user
                      /\ r.ext = generateExternalID(parseRow(DataRecord(p, k)).tx)

\* a file with two failing rows and a row that parses ended in a succeeded job
FailingRowsJobSucceeded ==
    \E p \in Procs :
        /\ Ended(p)
        /\ insertErr[p] = ""
        /\ Cardinality(FailingRows(p)) >= 2
        /\ ParsedRows(p) # {}
        /\ importJobs[p].status = "succeeded"

\* C8: the Errors of a returned ImportResult are in strictly ascending order
\* of line number, the k-th data record after the header skip has line
\* number skip_lines + 1 + k, and each entry is "line N: message" with the
\* message of the parse of that record.
ErrorsAscendByLine ==
    \A p \in Procs :
        returned[p].kind = "result" =>
            LET errs == returned[p].Errors IN
            /\ \A i \in 1 .. Len(errs) :
                  \E k \in FailingRows(p) :
                      errs[i] = <<"line", skipLines[p] + 1 + k, parseRow(DataRecord(p, k)).err>>
            /\ \A i, j \in 1 .. Len(errs) : i < j => errs[i][2] < errs[j][2]

\* a result was returned whose failures arrived out of line order
UnorderedFailuresReturned ==
    \E p \in Procs :
        /\ returned[p].kind = "result"
        /\ \E i, j \in 1 .. Len(parseErrors[p]) :
              i < j /\ parseErrors[p][i].lineNum > parseErrors[p][j].lineNum
        /\ skipLines[p] > 0

OutcomeIsOrderIndependent ==
    \A p \in Procs :
        (Ended(p) /\ insertErr[p] = "") =>
            LET before == txsAtStart[p].table
                fresh == {e \in ExtIds(p) :
                            \A r \in BagToSet(before) :
                                ~(r.user = input[p].user /\ r.source = "csv" /\ r.ext = e)}
                added == {[user |-> input[p].user, source |-> "csv", ext |-> e, job |-> p] :
                            e \in fresh}
            IN  /\ transactions = before (+) SetToBag(added)
                /\ rowsImported[p] = Cardinality(fresh)
                /\ returned[p].RowsImported = Cardinality(fresh)
                /\ importJobs[p].rows_imported = Cardinality(fresh)
                /\ returned[p].RowsFailed = Cardinality(FailingRows(p))
                /\ importJobs[p].rows_failed = Cardinality(FailingRows(p))

\* rows were received out of file order by an invocation that imported a row
\* and skipped a duplicate
OutOfOrderImportReturned ==
    \E p \in Procs :
        /\ Ended(p)
        /\ insertErr[p] = ""
        /\ consumed[p].outOfOrder
        /\ rowsImported[p] > 0
        /\ rowsImported[p] < Cardinality(ParsedRows(p))

\* C10: every bulk-insert call carries between 1 and 500 transactions, and
\* an invocation with N rows that parse, none of whose bulk inserts failed,
\* has made ceil(N/500) calls, each but the last of 500 transactions and the
\* last of N - 500 * (calls - 1).
BulkInsertsAreBatchesOf500 ==
    \A p \in Procs :
        /\ \A k \in 1 .. Len(bulkCalls[p]) : bulkCalls[p][k].size \in 1 .. 500
        /\ (Ended(p) /\ insertErr[p] = "") =>
              LET N == Cardinality(ParsedRows(p))
                  calls == Len(bulkCalls[p])
              IN  /\ calls = (N + 499) \div 500
                  /\ \A k \in 1 .. calls - 1 : bulkCalls[p][k].size = 500
                  /\ calls > 0 => bulkCalls[p][calls].size = N - 500 * (calls - 1)

\* the import of BigRows well-formed rows made a call of 500 and a call of the rest
TwoBatchesInserted ==
    \E p \in Procs :
        /\ Ended(p)
        /\ insertErr[p] = ""
        /\ Cardinality(ParsedRows(p)) = BigRows
        /\ Len(bulkCalls[p]) = 2
        /\ bulkCalls[p][1].size = 500
        /\ bulkCalls[p][2].size = BigRows - 500

\* the sum of the counts the first n bulk-insert calls of p returned
RECURSIVE CountsUpTo(_, _)
CountsUpTo(p, n) == IF n = 0 THEN 0 ELSE bulkCalls[p][n].count + CountsUpTo(p, n - 1)

\* the bulk-insert calls of p that returned without an error
InsertsDone(p) ==
    {k \in 1 .. Len(bulkCalls[p]) : bulkCalls[p][k].returned /\ ~bulkCalls[p][k].failed}

\* what C11 says of the progress updates of p
ProgressMatchesInserts(p) ==
    LET updates == progressCalls[p] IN
    /\ Len(updates) = Cardinality(InsertsDone(p))
    /\ \A k \in 1 .. Len(updates) :
          /\ k \in InsertsDone(p)
          /\ updates[k].rowsImported = CountsUpTo(p, k)
          /\ updates[k].rowsFailed = 0
    /\ \A k \in 1 .. Len(updates) - 1 :
          /\ updates[k].rowsImported <= updates[k + 1].rowsImported
          /\ updates[k].rowsFailed <= updates[k + 1].rowsFailed
    /\ (Ended(p) /\ Len(updates) > 0) =>
          /\ updates[Len(updates)].rowsImported = rowsImported[p]
          /\ updates[Len(updates)].rowsFailed = rowsFailed[p]
          /\ updates[Len(updates)].rowsImported = importJobs[p].rows_imported
          /\ updates[Len(updates)].rowsFailed = importJobs[p].rows_failed

\* C11: when no row of the file fails to parse, in every state the progress
\* updates of the job are one per bulk insert that returned without an
\* error, the k-th issued in the step in which the k-th insert returns and
\* carrying the sum of the counts returned by the first k inserts and
\* rows_failed = 0; the reported values never decrease, and once the
\* invocation has ended the last update carries its final counts.  No call
\* other than a bulk insert fails and the caller's scope is not cancelled.
OneProgressUpdatePerInsert ==
    \A p \in Procs :
        \/ pc[p] = "start"
        \/ ProgressMatchesInserts(p)
        \/ FailingRows(p) # {}

\* the import of BigRows well-formed rows ended after two inserts and the
\* two updates that followed them
TwoUpdatesForTwoInserts ==
    \E p \in Procs :
        /\ Ended(p)
        /\ Cardinality(InsertsDone(p)) = 2
        /\ Len(progressCalls[p]) = 2
        /\ progressCalls[p][1].rowsImported = 500
        /\ progressCalls[p][2].rowsImported = BigRows
        /\ FailingRows(p) = {}

\* the results p processed since its last progress update (since its start
\* when it made none)
SinceLastUpdate(p) ==
    Processed(consumed[p]) -
        (IF progressCalls[p] = <<>> THEN 0
         ELSE progressCalls[p][Len(progressCalls[p])].processed)

\* C12: between two consecutive progress updates of an import, and before
\* the first, the consumer processes at most 500 row outcomes, parsed rows
\* and parse failures counted together.
UpdateEvery500Outcomes ==
    \A p \in Procs : SinceLastUpdate(p) <= 500

\* the number of stored transactions carrying import_job_id j
StoredRowsOf(j) ==
    BagCardinality([r \in {x \in DOMAIN transactions : x.job = j} |-> transactions[r]])

\* C13: the rows_imported persisted on a succeeded or failed job is the
\* number of transactions stored with its import_job_id, the rows stored by
\* a bulk-insert call that then returns an error included.
RowsImportedCountsStoredRows ==
    \A p \in Procs :
        importJobs[p].status \in Terminal =>
            importJobs[p].rows_imported = StoredRowsOf(p)

\* FinanceHandler.ImportTransactionsCsv after the call of ImportWithOptions:
\* the response made from what the service returned
ImportTransactionsCsv(ret) ==
    IF ret.kind = "error"
    THEN [code |-> "internal", ImportedCount |-> 0, DuplicateCount |-> 0, ImportJobId |-> NullJob]
    ELSE IF ret.RowsImported = 0 /\ Len(ret.Errors) > 0
    THEN [code |-> "invalid_argument", ImportedCount |-> 0, DuplicateCount |-> 0,
          ImportJobId |-> NullJob]
    ELSE LET duplicates == ret.RowsTotal - ret.RowsImported - ret.RowsFailed IN
         [code |-> "ok",
          ImportedCount |-> ret.RowsImported,
          DuplicateCount |-> IF duplicates < 0 THEN 0 ELSE duplicates,
          ImportJobId |-> ret.JobID]

\* C14: the duplicate count reported to the caller of an import is the
\* number of parsed rows that were skipped as duplicates, that is the parsed
\* rows of the file that the import did not insert (importing the same two
\* rows a second time reports 2).
DuplicateCountIsSkippedRows ==
    \A p \in Procs :
        returned[p].kind = "result" =>
            LET response == ImportTransactionsCsv(returned[p]) IN
            response.code = "ok" =>
                response.DuplicateCount =
                    Cardinality(ParsedRows(p)) - returned[p].RowsImported

\* the errors an invocation on p's file returns: one for each row that fails
\* to parse, in the order of the lines
ExpectedErrors(p) ==
    LET failing == FailingRows(p)
        kth(i) == CHOOSE k \in failing : Cardinality({j \in failing : j < k}) = i - 1
    IN  [i \in 1 .. Cardinality(failing) |->
            <<"line", skipLines[p] + 1 + kth(i), parseRow(DataRecord(p, kth(i))).err>>]

\* the external ids of p's parsed rows that were not stored for its user when
\* it started
FreshIds(p) ==
    {e \in ExtIds(p) :
        \A r \in BagToSet(txsAtStart[p].table) :
            ~(r.user = input[p].user /\ r.source = "csv" /\ r.ext = e)}

\* C15: a failing progress update does not abort the import.  With
\* UpdateImportJobProgress free to fail at each of its calls (and no other
\* call failing), no job is ever failed and no insert error arises, every
\* invocation that created its job ends with all rows of the file processed,
\* none discarded, its job succeeded, and returns the RowsImported,
\* RowsFailed and Errors that the file and the stored rows determine, which
\* are those of the run in which every update succeeds.
ProgressFailureChangesNothing ==
    \A p \in Procs :
        /\ importJobs[p].status # "failed"
        /\ insertErr[p] = ""
        /\ Ended(p) =>
              /\ importJobs[p].status = "succeeded"
              /\ returned[p].kind = "result"
              /\ consumed[p].count = DataCount(p)
              /\ consumed[p].skipped = 0
              /\ returned[p].RowsImported = Cardinality(FreshIds(p))
              /\ returned[p].RowsFailed = Cardinality(FailingRows(p))
              /\ returned[p].Errors = ExpectedErrors(p)
              /\ StoredRowsOf(p) = Cardinality(FreshIds(p))

\* the update after the first batch of 500 failed, the rows after it were
\* processed and inserted, and the invocation returned
FailedUpdateThenMoreRows ==
    \E p \in Procs :
        /\ Ended(p)
        /\ Len(progressCalls[p]) > 1
        /\ progressCalls[p][1].failed
        /\ progressCalls[p][1].rowsImported = importBatchSize
        /\ returned[p].RowsImported = BigRows
        /\ returned[p].RowsFailed = 1
        /\ importJobs[p].status = "succeeded"

\* p returned one of the errors of the pre-flight
RejectedInPreflight(p) == pc[p] = "done" /\ returned[p].err \in PreflightErrors

\* C16: an invocation rejected in the pre-flight (the file config is not
\* detected, the columns are not resolved, the currency is not resolved)
\* leaves the store unchanged: the rejecting step changes no table, and in
\* every state the invocation has no user file, no import job (so none with
\* status failed) and no transaction, the stored transactions being those it
\* found.
PreflightRejectionLeavesStore ==
    /\ [](\A p \in Procs :
            RejectedInPreflight(p) =>
                /\ returned[p].kind = "error"
                /\ p \notin userFiles
                /\ importJobs[p] = NoJob
                /\ StoredRowsOf(p) = 0
                /\ transactions = txsAtStart[p].table)
    /\ [][\A p \in Procs :
            (pc[p] = "start" /\ pc'[p] = "done") =>
                /\ RejectedInPreflight(p)'
                /\ UNCHANGED dbVars]_vars

\* an invocation on a file with a header and a resolved mapping was rejected
\* for its currency while transactions were stored
RejectedWithStoredRows ==
    \E p \in Procs :
        /\ RejectedInPreflight(p)
        /\ returned[p].err = "currency code not found"
        /\ transactions = SetToBag(PriorRows)

\* the import jobs that reference user file f
JobsOfFile(f) == {q \in Procs : importJobs[q].status # "absent" /\ importJobs[q].file = f}

\* C17: every user file created by an import invocation is referenced by
\* exactly one import job and every import job references one user file
\* that exists, also when the creation of the file or of the job fails.
\* Stated for the invocations that have returned (between the two creations
\* of a running invocation the file has no job yet).
FilesAndJobsPairUp ==
    /\ \A f \in userFiles : pc[f] = "done" => Cardinality(JobsOfFile(f)) = 1
    /\ \A q \in Procs :
          importJobs[q].status # "absent" => importJobs[q].file \in userFiles

\* the rows of a table that a predicate on rows selects, as a bag
RowsWhere(table, keep(_)) == [r \in {x \in DOMAIN table : keep(x)} |-> table[r]]

\* C18: DeleteByImportJobID(u, j) removes exactly the transactions of owner
\* u and import job j, returns their number, and leaves every other
\* transaction (of other users, of other jobs of u) as it was; right after
\* it ListTransactions(u, {importJobId: j}) returns no row and total 0.
DeleteRemovesExactlyTheBatch ==
    [][Len(deleted') > Len(deleted) =>
         LET d == deleted'[Len(deleted')]
             ofBatch(r) == r.user = d.user /\ r.job = d.job
             others(r) == ~ofBatch(r)
             listed == ListTransactions(transactions', d.user, JobFilter(d.job, 0, 0))
         IN  /\ d.DeletedCount = BagCardinality(RowsWhere(transactions, ofBatch))
             /\ RowsWhere(transactions', ofBatch) = EmptyBag
             /\ RowsWhere(transactions', others) = RowsWhere(transactions, others)
             /\ listed.rows = 0
             /\ listed.total = 0]_vars

\* a batch with rows was deleted while another user and another job of the
\* same user had rows stored
BatchDeletedBesideOthers ==
    /\ Len(deleted) = 1
    /\ deleted[1].DeletedCount > 0
    /\ \E r \in DOMAIN transactions : r.user = deleted[1].user /\ r.job # deleted[1].job
    /\ \E r \in DOMAIN transactions : r.user # deleted[1].user

\* the stored transactions of user u
RowsOfUser(table, u) == [r \in {x \in DOMAIN table : x.user = u} |-> table[r]]

\* C19: deduplication is scoped to the user.  What an import of user A
\* yields is determined by A's file and the rows A had stored when it
\* started, whatever rows other users stored before and whatever another
\* user imports beside it: rows_imported is the number of external ids of
\* the file not stored for A, rows_failed the number of rows that fail to
\* parse, and A's stored transactions are those A had plus one row for each
\* of these ids.  No step removes a row, and the rows of a user change only
\* in an insert of an invocation of that user.
DedupIsScopedToTheUser ==
    /\ [](\A p \in Procs :
            Ended(p) =>
                LET A == input[p].user
                    added == {[user |-> A, source |-> "csv", ext |-> e, job |-> p] :
                                e \in FreshIds(p)}
                IN  /\ returned[p].kind = "result"
                    /\ returned[p].RowsImported = Cardinality(FreshIds(p))
                    /\ importJobs[p].rows_imported = Cardinality(FreshIds(p))
                    /\ returned[p].RowsFailed = Cardinality(FailingRows(p))
                    /\ importJobs[p].rows_failed = Cardinality(FailingRows(p))
                    /\ RowsOfUser(transactions, A) =
                          RowsOfUser(txsAtStart[p].table, A) (+) SetToBag(added))
    /\ [][/\ \A r \in DOMAIN transactions :
                r \in DOMAIN transactions' /\ transactions'[r] = transactions[r]
           /\ \A u \in Users :
                RowsOfUser(transactions', u) # RowsOfUser(transactions, u) =>
                    \E p \in Procs : input[p].user = u /\ pc[p] \in {"flush", "finalFlush"}]_vars

\* two users imported the same rows side by side, beside stored rows of both,
\* and each had every row not stored for them inserted
SameRowsForTwoUsers ==
    \E p, q \in Procs :
        /\ Ended(p) /\ Ended(q)
        /\ input[p].user # input[q].user
        /\ q \in txsAtStart[p].running
        /\ txsAtStart[p].table = SetToBag(PriorRows)
        /\ input[p].file = input[q].file
        /\ Cardinality(ExtIds(p)) = MaxRowsTwo
        /\ rowsImported[p] + rowsImported[q] = MaxRowsTwo

\* the mappings of a table for a fingerprint that a user owns
MappingsOf(table, fingerprint, user) ==
    {m \in table : m.fingerprint = fingerprint /\ m.user = user}

\* C20: the lookup of a mapping is two-tier.  For the fingerprint f of the
\* analyzed file and the user u, the mapping AnalyzeFile got from
\* GetMappingByFingerprint is a mapping of u for f when u has one, otherwise
\* a global mapping for f when there is one, otherwise none, and it is never
\* owned by another user; MappingFound and CanAutoImport are true exactly
\* when a mapping was returned.
MappingLookupIsTwoTier ==
    analyzed.kind = "result" =>
        LET own == MappingsOf(analyzed.table, analyzed.fingerprint, analyzed.user)
            global == MappingsOf(analyzed.table, analyzed.fingerprint, NullUser)
            found == analyzed.Mapping # NoMapping
        IN  /\ own # {} => analyzed.Mapping \in own
            /\ (own = {} /\ global # {}) => analyzed.Mapping \in global
            /\ (own = {} /\ global = {}) => ~found
            /\ found => /\ analyzed.Mapping \in analyzed.table
                        /\ analyzed.Mapping.fingerprint = analyzed.fingerprint
                        /\ analyzed.Mapping.user \in {analyzed.user, NullUser}
            /\ analyzed.MappingFound = found
            /\ analyzed.CanAutoImport = found

\* a user's own mapping was returned while a global mapping and a mapping of
\* another user existed for the same fingerprint
OwnMappingPreferred ==
    /\ analyzed.kind = "result"
    /\ analyzed.CanAutoImport
    /\ analyzed.Mapping.user = analyzed.user
    /\ MappingsOf(analyzed.table, analyzed.fingerprint, NullUser) # {}
    /\ \E m \in analyzed.table :
          /\ m.fingerprint = analyzed.fingerprint
          /\ m.user \notin {analyzed.user, NullUser}

\* an index that is given, or else the suggested one
Filled(given, suggested) == IF given >= 0 THEN given ELSE suggested

\* C21: column resolution.  Indices given as < 0 are filled from
\* SuggestColumns(headers); the mapping is double-entry exactly when
\* IsDoubleEntry is set or a debit or credit index >= 0 is given, or no
\* amount column is given or suggested and debit and credit are both
\* suggested, and then debit and credit are both required; the mapping is
\* rejected when date or description is absent, when neither an amount
\* column nor both debit and credit are present, or when an index in use
\* (date, description, category, amount or debit and credit) lies beyond
\* the headers; otherwise it is accepted with every index in use inside the
\* header range.
ColumnsResolveByTheRules ==
    applied.op = "resolveMapping" =>
        LET headers == applied.args[1]
            given == applied.args[2]
            suggested == SuggestColumns(headers)
            resolved == applied.result.mapping
            accepted == applied.result.err = ""
            double == \/ given.IsDoubleEntry
                      \/ given.DebitCol >= 0
                      \/ given.CreditCol >= 0
                      \/ /\ given.AmountCol < 0
                         /\ suggested.AmountCol < 0
                         /\ suggested.DebitCol >= 0
                         /\ suggested.CreditCol >= 0
            date == Filled(given.DateCol, suggested.DateCol)
            desc == Filled(given.DescCol, suggested.DescCol)
            category == Filled(given.CategoryCol, suggested.CategoryCol)
            amount == Filled(given.AmountCol, suggested.AmountCol)
            debit == Filled(given.DebitCol, suggested.DebitCol)
            credit == Filled(given.CreditCol, suggested.CreditCol)
            inUse == {date, desc} \cup (IF double THEN {debit, credit} ELSE {amount})
                        \cup (IF category >= 0 THEN {category} ELSE {})
            missing == \/ date < 0 \/ desc < 0
                       \/ double /\ (debit < 0 \/ credit < 0)
                       \/ ~double /\ amount < 0
            beyond == \E c \in inUse : c > Len(headers) - 1
        IN  /\ resolved.IsDoubleEntry = double
            /\ accepted <=> (~missing /\ ~beyond)
            /\ accepted =>
                  /\ resolved.DateCol = date
                  /\ resolved.DescCol = desc
                  /\ resolved.CategoryCol = category
                  /\ double => resolved.DebitCol = debit /\ resolved.CreditCol = credit
                  /\ ~double => resolved.AmountCol = amount
                  /\ \A c \in inUse : c \in 0 .. Len(headers) - 1

\* the lines among the first HeaderSearchLimit (20) of a file that hold a
\* header keyword and at least 3 delimiters, by zero-based index
HeaderCandidates(lines) ==
    {i \in 0 .. Min(Len(lines), HeaderSearchLimit) - 1 :
        hasKeyword(lines[i + 1]) /\ DelimiterCount(lines[i + 1]) >= 3}

\* C22: DetectConfig examines at most the first 20 lines of the file.  The
\* header row is the first of those lines that holds a header keyword and
\* in which a delimiter occurs at least 3 times, skip_lines is its
\* zero-based index, and when there is no such line among the first 20 the
\* result is ErrNoHeadersFound (ErrEmptyFile for the empty input).
HeaderAmongFirst20Lines ==
    applied.op = "DetectConfig" =>
        LET lines == applied.args[1]
            candidates == HeaderCandidates(lines)
            config == applied.result
        IN  IF Len(lines) = 0 THEN config.err = "file is empty"
            ELSE IF candidates = {} THEN config.err = "could not find data headers"
            ELSE /\ config.err = ""
                 /\ config.SkipLines \in candidates
                 /\ \A i \in candidates : config.SkipLines <= i
                 /\ config.Headers = lines[config.SkipLines + 1]

\* the token of a header: its letters and digits in lower case
TokenOf(h) ==
    LET alnum(r) == r \in {"a", "A", "1"}
        lower(r) == IF r = "A" THEN "a" ELSE r
        kept == SelectSeq(h, alnum)
    IN  [i \in 1 .. Len(kept) |-> lower(kept[i])]

\* the ordered sequence of the non-empty tokens of a header list
TokensOf(headers) ==
    LET NonEmpty(t) == t # <<>> IN
    SelectSeq([i \in 1 .. Len(headers) |-> TokenOf(headers[i])], NonEmpty)

ParseAmountRoundTrip ==
    applied.op = "ParseAmount" =>
        /\ applied.result.err = ""
        /\ applied.result.cents = DecToBits(applied.args[3].digits)
        /\ applied.result.neg = applied.args[3].neg

\* a negative amount of more than ten digits written with European thousands
\* separators was parsed
LargeNegativeEuropeanParsed ==
    /\ applied.op = "ParseAmount"
    /\ applied.args[2]
    /\ applied.args[1] = <<"-", "1", ".", "9", "9", "9", ".", "9", "9", "9", ".", "9", "9", "9", ",", "2", "9">>
    /\ applied.result = [neg |-> TRUE, cents |-> DecToBits(<<1, 9, 9, 9, 9, 9, 9, 9, 9, 9, 2, 9>>), err |-> ""]

\* the rows of user u that match the filter
MatchingRows(u, filter) ==
    BagCardinality(RowsWhere(transactions,
        LAMBDA r : r.user = u /\ (filter.ImportJobID # NullJob => r.job = filter.ImportJobID)))

\* the page size of a limit: 50 by default, no more than 100
PageSize(limit) == IF limit <= 0 THEN 50 ELSE Min(limit, 100)

\* C25: ListTransactions page size: a limit that is absent or <= 0 gives a
\* page of at most 50 rows, a limit of 1..100 a page of at most that many
\* rows, a greater limit is clamped to 100 rows (the page is the matching
\* rows from the offset on, up to the page size); the returned total is the
\* number of all rows matching the filter, whatever limit and offset are.
PageSizeDefault50Max100 ==
    applied.op = "ListTransactions" =>
        LET u == applied.args[1]
            filter == applied.args[2]
            matching == MatchingRows(u, filter)
            offset == IF filter.Offset < 0 THEN 0 ELSE filter.Offset
            left == IF matching <= offset THEN 0 ELSE matching - offset
        IN  /\ applied.result.rows = Min(PageSize(filter.Limit), left)
            /\ applied.result.total = matching

\* the parse stream of p has stopped: dispatcher returned, every worker
\* exited, results closed, and the consumer is past its loop
StreamStopped(p) ==
    /\ dpc[p] = "done"
    /\ \A w \in Workers(p) : wpc[p][w] = "exit"
    /\ resultsClosed[p]
    /\ pc[p] \in {"finalFlush", "progress", "finish", "done"}

\* C26: every invocation that started the parse stream terminates: whatever
\* the interleaving of dispatcher, workers, joiner and consumer over the
\* bounded channels, with or without an insert failure or a cancellation of
\* the scope, the dispatcher stops, every worker exits, the results channel
\* is closed and the consumer loop ends.
ParseStreamTerminates ==
    <>[](\A p \in Procs : dpc[p] # "off" => StreamStopped(p))

\* a stream stopped after a bulk insert failed while it ran: the dispatcher
\* returned before the end of the file and results were discarded
StoppedByInsertFailure ==
    \E p \in Procs :
        /\ StreamStopped(p)
        /\ ~ctxCancelled[p]
        /\ insertErr[p] # ""
        /\ reader[p] < RecordCount(p)
        /\ consumed[p].skipped > 0

LoopEndedUncancelled(p) ==
    /\ pc[p] \in {"finalFlush", "progress", "finish"}
    /\ dpc[p] # "off"
    /\ ~parseCancelled[p]

\* C28: conservation in the parse stream: while the scope is not cancelled
\* every data record read by the dispatcher yields exactly one result, a
\* transaction or an error, never both, none or two: the results consumed
\* are as many as the data records and each line number occurs exactly
\* once, for any worker count >= 1.
OneResultPerRecord ==
    \A p \in Procs :
        /\ ~consumed[p].twice
        /\ \A k \in 1 .. Len(results[p]) : (results[p][k].err = "") # (results[p][k].tx = NoTx)
        /\ LoopEndedUncancelled(p) =>
              /\ consumed[p].count = DataCount(p)
              /\ consumed[p].upTo = skipLines[p] + 1 + DataCount(p)
              /\ consumed[p].ahead = {}

\* two workers delivered the results of a file of a well-formed and a
\* malformed row out of order, and every record gave its result
BothResultsOutOfOrder ==
    \E p \in Procs :
        /\ LoopEndedUncancelled(p)
        /\ input[p].workers = MaxWorkers
        /\ consumed[p].outOfOrder
        /\ consumed[p].count = MaxRowsTwo
        /\ rowsFailed[p] = 1
        /\ Len(batch[p]) = 1

\* the records that follow the header line of p's file: the lines after the
\* line of index skip_lines that are not blank
AfterHeader(p) ==
    LET lines == FileLines(input[p].file) IN
    csvRecords(SubSeq(lines, skipLines[p] + 2, Len(lines)))

\* C29: for every file whose header the sniffer places at line index
\* skip_lines, the records dispatched for parsing are exactly the records
\* that follow the header line: neither the header nor a line before it is
\* parsed as a transaction and no data record after the header is skipped,
\* blank lines before the header included.
DispatchedAreTheRecordsAfterHeader ==
    \A p \in Procs :
        /\ \A k \in 1 .. Len(jobs[p]) :
              LET i == jobs[p][k].lineNum - skipLines[p] - 1 IN
              /\ i \in 1 .. Len(AfterHeader(p))
              /\ jobs[p][k].record = AfterHeader(p)[i]
        /\ (pc[p] \in {"finalFlush", "progress", "finish"} /\ ~parseCancelled[p]) =>
              consumed[p].count = Len(AfterHeader(p))

\* the rows of the batches of p that the bulk inserts skipped as duplicates
RECURSIVE SkippedAsDuplicates(_)

SkippedAsDuplicates(calls) ==
    IF calls = <<>> THEN 0
    ELSE (IF Head(calls).returned /\ ~Head(calls).failed
          THEN Head(calls).size - Head(calls).count ELSE 0)
         + SkippedAsDuplicates(Tail(calls))

\* C30: a job is finalized as succeeded only if every data record of the
\* file was processed: at status succeeded, rows_imported + rows_failed + the
\* rows skipped as duplicates is the number of data records after the
\* header, also when the caller's scope is cancelled while the stream runs.
SucceededOnlyIfAllProcessed ==
    \A p \in Procs :
        importJobs[p].status = "succeeded" =>
            importJobs[p].rows_imported + importJobs[p].rows_failed
                + SkippedAsDuplicates(bulkCalls[p]) = Len(AfterHeader(p))

====
